---- MODULE Spec2Model ----
(***************************************************************************)
(* Codec readers of internal/codec/reader.go: the leaf readers (all-bytes, *)
(* lines, csv, delim, chunker, tar), their acknowledgment bookkeeping, and *)
(* the multipart wrapper that batches the results of a leaf reader.        *)
(*                                                                         *)
(* One reader is built over one byte source.  A consumer thread calls      *)
(* Next and Close; the ack closures handed out by Next run on other        *)
(* threads, so the body of an ack is two steps: the section under the      *)
(* reader's mutex, and the call of the source-ack after the unlock.        *)
(***************************************************************************)
EXTENDS Integers, Sequences, FiniteSets, TLC

\* Bounds of the model.
MaxParts == 3          \* results a source yields before it must end
MaxAckCalls == 2       \* calls of one ack closure in the specification SpecReack

\* Error values.  Nil is Go's nil error, EOF is io.EOF.
Nil == "nil"
EOF == "EOF"
Shutdown == "service shutting down"
IOErrs == {"ioErr1", "ioErr2"}
AckErrs == {"ackErr"}

Kinds == {"all-bytes", "lines", "csv", "delim", "chunker", "tar"}
MultiPartKinds == Kinds \ {"all-bytes"}

Ids == 1..MaxParts

VARIABLES
    kind,       \* the leaf codec of the reader
    wrapped,    \* TRUE when the codec string ends in /multipart
    consumed,   \* allBytesReader.consumed
    finished,   \* finished of a multi-part reader
    pending,    \* pending of a multi-part reader
    once,       \* the sync.Once of ackOnce has run
    fires,      \* the error values the underlying source-ack callback was invoked with, in order
    closed,     \* Close has been called
    ups,        \* the results the leaf reader's Next has returned with a nil error, in order
    nextRet,    \* what the last call of the leaf reader's Next returned
    srcErr,     \* the last error the byte source produced
    ackpc,      \* per result: where the running call of its ack closure stands
    ackErr,     \* per result: the err argument of the running or last call
    ackDo,      \* per result: doAck computed under the mutex by the running or last call
    ackArgs,    \* per result: the err arguments of all calls of its ack closure, in order
    ackUnfired, \* per result: the source-ack had not fired when the last call began
    wpc,        \* multipartReader.Next: "idle", "loop", "acking" or "panic"
    wparts,     \* multipartReader.Next: parts (ids of the accumulated results)
    wacks,      \* multipartReader.Next: acks (ids of the results whose acks are accumulated)
    wcur,       \* multipartReader.Next: the empty result whose ack is being called
    batches,    \* the batches multipartReader.Next has returned, with the state of each combined ack
    mret,       \* what the last call of multipartReader.Next returned
    dropped,    \* the results that were accumulated when multipartReader.Next returned an error
    codec,      \* GetReader: the codec string, as its tokens between the '/'
    path,       \* the path given to the constructor, as its pieces between the '.'
    got,        \* what GetReader returned
    built,      \* what the call of the returned constructor did
    cpc,        \* "off", "start", "got" or "built"
    chunkSize,  \* chunkerReader.chunkSize, the length of buf
    srcBytes,   \* the bytes of the source a chunkerReader reads
    srcPos,     \* how many of them the reads have delivered
    chunks,     \* the parts chunkerReader.Next has returned, in order
    chunkFin,   \* chunkerReader.finished
    chunkRet,   \* what the last call of chunkerReader.Next returned
    fns,        \* NewArithmeticExpression: what each operand function returns when executed
    ops,        \* NewArithmeticExpression: the operators between the operands
    res,        \* what Exec of the arithmetic expression returned
    ran,        \* the operands Exec executed
    apc,        \* "off", "start" or "done"
    heap,       \* the maps of the function sets: each maps the names it holds to their constructors
    setTwo,     \* the clone: the latest set Without returned
    clones,     \* how many times Without has been called
    had,        \* the entries the original set held when it was first cloned from
    excl,       \* the names the calls of Without excluded
    added,      \* the names added to the clone and not excluded since
    initRet,    \* what the last call returned, when it was Init
    addRet,     \* what the last call was given and returned, when it was Add
    method,     \* the method under evaluation
    target,     \* the value its target function returns
    margs,      \* its arguments
    mres,       \* what the method returned
    mprev,      \* what its evaluation before this one returned
    mpc         \* "off", "start" or "done"

leafVars == <<consumed, finished, pending, once, fires, ups, nextRet, srcErr>>
ackVars == <<ackpc, ackErr, ackDo, ackArgs, ackUnfired>>
wrapVars == <<wpc, wparts, wacks, wcur, batches, mret, dropped>>
readerVars == <<kind, wrapped, closed, leafVars, ackVars, wrapVars>>
ctorVars == <<codec, path, got, built, cpc>>
chunkVars == <<chunkSize, srcBytes, srcPos, chunks, chunkFin, chunkRet>>
arithVars == <<fns, ops, res, ran, apc>>
setVars == <<heap, setTwo, clones, had, excl, added, initRet, addRet>>
methVars == <<method, target, margs, mres, mprev, mpc>>
restVars == <<ctorVars, chunkVars, arithVars, setVars, methVars>>
ctorFrame == <<readerVars, chunkVars, arithVars, setVars, methVars>>
chunkFrame == <<readerVars, ctorVars, arithVars, setVars, methVars>>
arithFrame == <<readerVars, ctorVars, chunkVars, setVars, methVars>>
setFrame == <<readerVars, ctorVars, chunkVars, arithVars, methVars>>
methFrame == <<readerVars, ctorVars, chunkVars, arithVars, setVars>>
vars == <<readerVars, restVars>>

\* No codec string is being resolved.
CtorOff ==
    /\ codec = <<>>
    /\ path = <<>>
    /\ got = <<>>
    /\ built = <<>>
    /\ cpc = "off"

\* No chunker is reading bytes.
ChunkOff ==
    /\ chunkSize = 0
    /\ srcBytes = <<>>
    /\ srcPos = 0
    /\ chunks = <<>>
    /\ chunkFin = FALSE
    /\ chunkRet = "off"

\* No arithmetic expression is being evaluated.
ArithOff ==
    /\ fns = <<>>
    /\ ops = <<>>
    /\ res = <<>>
    /\ ran = {}
    /\ apc = "off"

\* No function set is in use.
MethOff ==
    /\ method = ""
    /\ target = <<>>
    /\ margs = <<>>
    /\ mres = <<>>
    /\ mprev = <<>>
    /\ mpc = "off"

SetOff ==
    /\ heap = <<>>
    /\ setTwo = <<>>
    /\ clones = 0
    /\ had = <<>>
    /\ excl = {}
    /\ added = {}
    /\ initRet = <<>>
    /\ addRet = <<>>

----------------------------------------------------------------------------
\* The source-ack.

\* The source-ack state as a record, so that calls compose.
AckState == [once |-> once, fires |-> fires]

\* ackOnce without the sync.Once: every call reaches the callback.
ackOnceUnguarded(s, e) == [once |-> TRUE, fires |-> Append(s.fires, e)]

\* ackOnce(fn): the callback runs on the first call only.
ackOnce(s, e) ==
    IF s.once THEN s ELSE [once |-> TRUE, fires |-> Append(s.fires, e)]

\* The callback itself, as allBytesReader holds it (no ackOnce around it).
rawAck(s, e) == [once |-> s.once, fires |-> Append(s.fires, e)]

SetAck(s) == once' = s.once /\ fires' = s.fires

----------------------------------------------------------------------------
\* The byte source: what one read of it can deliver to each leaf reader.

Outcome(t, size, err) == [t |-> t, size |-> size, err |-> err]

\* The payload lengths that matter: empty or not.  Only isEmpty of the
\* multipart wrapper reads the length of a payload, so without the wrapper one
\* length stands for all.
Sizes == IF wrapped THEN {0, 1} ELSE {1}

SrcOutcomes(k) ==
    CASE k = "all-bytes" ->
            {Outcome("part", n, Nil) : n \in Sizes}
            \cup {Outcome("err", 0, e) : e \in IOErrs}
      [] k \in {"lines", "delim"} ->
            {Outcome("part", n, Nil) : n \in Sizes}
            \cup {Outcome("eof", 0, EOF)}
            \cup {Outcome("err", 0, e) : e \in IOErrs}
      [] k = "csv" ->
            \* the payload of a csv part is the JSON text of an object
            {Outcome("part", 1, Nil), Outcome("eof", 0, EOF)}
            \cup {Outcome("err", 0, e) : e \in IOErrs}
      [] k = "chunker" ->
            \* Read returns (n, err): n bytes, and nil, io.EOF or an I/O error.
            {Outcome("part", 1, Nil), Outcome("zero", 0, Nil),
             Outcome("parteof", 1, EOF), Outcome("eof", 0, EOF)}
            \cup {Outcome("err", n, e) : n \in {0, 1}, e \in IOErrs}
      [] k = "tar" ->
            {Outcome("part", n, Nil) : n \in Sizes}
            \cup {Outcome("eof", 0, EOF)}
            \cup {Outcome("err", 0, e) : e \in IOErrs}
            \cup {Outcome("bodyerr", 0, e) : e \in IOErrs}

\* A source ends: once it reported EOF it reports EOF again, and it yields at
\* most MaxParts results.
Outcomes ==
    IF finished \/ (kind = "all-bytes" /\ consumed)
    THEN {Outcome("eof", 0, EOF)}
    ELSE {o \in SrcOutcomes(kind) :
            o.t \in {"part", "zero", "parteof"} => Len(ups) < MaxParts}

Ret(t, err) == [t |-> t, err |-> err]

\* A result of Next with a nil error: its parts (the payload lengths) and
\* whether an ack closure came with it.
Result(parts, hasAck) == [parts |-> parts, hasAck |-> hasAck]

----------------------------------------------------------------------------
\* The leaf readers' Next.  o is what the read of the source delivers.

Emit(size) == ups' = Append(ups, Result(<<size>>, TRUE))

allBytesReaderNext(o) ==
    IF consumed
    THEN /\ nextRet' = Ret("eof", EOF)
         /\ UNCHANGED <<consumed, finished, pending, once, fires, ups, srcErr>>
    ELSE /\ consumed' = TRUE
         /\ IF o.t = "err"
            THEN /\ SetAck(rawAck(AckState, o.err))
                 /\ nextRet' = Ret("err", o.err)
                 /\ srcErr' = o.err
                 /\ UNCHANGED ups
            ELSE /\ Emit(o.size)
                 /\ nextRet' = Ret("part", Nil)
                 /\ UNCHANGED <<once, fires, srcErr>>
         /\ UNCHANGED <<finished, pending>>

\* linesReader.Next with the error path leaving the source-ack alone.
linesReaderNextNoAck(o) ==
    /\ IF o.t = "part"
       THEN /\ pending' = pending + 1
            /\ Emit(o.size)
            /\ nextRet' = Ret("part", Nil)
            /\ UNCHANGED <<finished, once, fires, srcErr>>
       ELSE IF o.t = "eof"
       THEN /\ finished' = TRUE
            /\ nextRet' = Ret("eof", EOF)
            /\ UNCHANGED <<pending, once, fires, ups, srcErr>>
       ELSE /\ nextRet' = Ret("err", o.err)
            /\ srcErr' = o.err
            /\ UNCHANGED <<finished, pending, ups, once, fires>>
    /\ UNCHANGED consumed

linesReaderNext(o) ==
    /\ IF o.t = "part"
       THEN /\ pending' = pending + 1
            /\ Emit(o.size)
            /\ nextRet' = Ret("part", Nil)
            /\ UNCHANGED <<finished, once, fires, srcErr>>
       ELSE IF o.t = "eof"
       THEN /\ finished' = TRUE
            /\ nextRet' = Ret("eof", EOF)
            /\ UNCHANGED <<pending, once, fires, ups, srcErr>>
       ELSE /\ SetAck(ackOnce(AckState, o.err))
            /\ nextRet' = Ret("err", o.err)
            /\ srcErr' = o.err
            /\ UNCHANGED <<finished, pending, ups>>
    /\ UNCHANGED consumed

customDelimReaderNext(o) ==
    /\ IF o.t = "part"
       THEN /\ pending' = pending + 1
            /\ Emit(o.size)
            /\ nextRet' = Ret("part", Nil)
            /\ UNCHANGED <<finished, once, fires, srcErr>>
       ELSE IF o.t = "eof"
       THEN /\ finished' = TRUE
            /\ nextRet' = Ret("eof", EOF)
            /\ UNCHANGED <<pending, once, fires, ups, srcErr>>
       ELSE /\ SetAck(ackOnce(AckState, o.err))
            /\ nextRet' = Ret("err", o.err)
            /\ srcErr' = o.err
            /\ UNCHANGED <<finished, pending, ups>>
    /\ UNCHANGED consumed

csvReaderNext(o) ==
    /\ IF o.err # Nil
       THEN /\ IF o.err = EOF
               THEN /\ finished' = TRUE
                    /\ nextRet' = Ret("eof", EOF)
                    /\ UNCHANGED <<once, fires, srcErr>>
               ELSE /\ SetAck(ackOnce(AckState, o.err))
                    /\ nextRet' = Ret("err", o.err)
                    /\ srcErr' = o.err
                    /\ UNCHANGED finished
            /\ UNCHANGED <<pending, ups>>
       ELSE /\ pending' = pending + 1
            /\ Emit(o.size)
            /\ nextRet' = Ret("part", Nil)
            /\ UNCHANGED <<finished, once, fires, srcErr>>
    /\ UNCHANGED consumed

chunkerReaderNext(o) ==
    /\ IF finished
       THEN /\ nextRet' = Ret("eof", EOF)
            /\ UNCHANGED <<finished, pending, once, fires, ups, srcErr>>
       ELSE IF o.err \notin {Nil, EOF}
       THEN /\ SetAck(ackOnce(AckState, o.err))
            /\ nextRet' = Ret("err", o.err)
            /\ srcErr' = o.err
            /\ UNCHANGED <<finished, pending, ups>>
       ELSE /\ finished' = (o.err = EOF)
            /\ IF o.size > 0
               THEN /\ pending' = pending + 1
                    /\ Emit(o.size)
                    /\ nextRet' = Ret("part", Nil)
               ELSE IF o.err = EOF
               THEN /\ nextRet' = Ret("eof", EOF)
                    /\ UNCHANGED <<pending, ups>>
               ELSE \* return nil, nil, err with err == nil
                    /\ ups' = Append(ups, Result(<<>>, FALSE))
                    /\ nextRet' = Ret("zero", Nil)
                    /\ UNCHANGED pending
            /\ UNCHANGED <<once, fires, srcErr>>
    /\ UNCHANGED consumed

tarReaderNext(o) ==
    /\ IF o.t \in {"part", "bodyerr"}
       THEN IF o.t = "bodyerr"
            THEN /\ SetAck(ackOnce(AckState, o.err))
                 /\ nextRet' = Ret("err", o.err)
                 /\ srcErr' = o.err
                 /\ UNCHANGED <<finished, pending, ups>>
            ELSE /\ pending' = pending + 1
                 /\ Emit(o.size)
                 /\ nextRet' = Ret("part", Nil)
                 /\ UNCHANGED <<finished, once, fires, srcErr>>
       ELSE /\ IF o.err = EOF
               THEN /\ finished' = TRUE
                    /\ nextRet' = Ret("eof", EOF)
                    /\ UNCHANGED <<once, fires, srcErr>>
               ELSE /\ SetAck(ackOnce(AckState, o.err))
                    /\ nextRet' = Ret("err", o.err)
                    /\ srcErr' = o.err
                    /\ UNCHANGED finished
            /\ UNCHANGED <<pending, ups>>
    /\ UNCHANGED consumed

\* Reader.Next of the leaf reader that was built.
readerNext(o) ==
    CASE kind = "all-bytes" -> allBytesReaderNext(o)
      [] kind = "lines" -> linesReaderNext(o)
      [] kind = "delim" -> customDelimReaderNext(o)
      [] kind = "csv" -> csvReaderNext(o)
      [] kind = "chunker" -> chunkerReaderNext(o)
      [] kind = "tar" -> tarReaderNext(o)

----------------------------------------------------------------------------
\* The ack closures handed out with the parts.

BeginCall(id, e) ==
    /\ ackErr' = [ackErr EXCEPT ![id] = e]
    /\ ackArgs' = [ackArgs EXCEPT ![id] = Append(@, e)]
    /\ ackUnfired' = [ackUnfired EXCEPT ![id] = (fires = <<>>)]

\* allBytesReader hands out the callback it was given.
allBytesReaderAck(id, e) ==
    /\ BeginCall(id, e)
    /\ SetAck(rawAck(AckState, e))
    /\ ackpc' = [ackpc EXCEPT ![id] = "done"]
    /\ UNCHANGED <<pending, ackDo>>

\* The ack leaving pending alone when it is called with an error.
readerAckKeepOnError(id, e) ==
    /\ BeginCall(id, e)
    /\ pending' = IF e # Nil THEN pending ELSE pending - 1
    /\ ackDo' = [ackDo EXCEPT ![id] = (pending' = 0 /\ finished)]
    /\ ackpc' = [ackpc EXCEPT ![id] = "unlocked"]
    /\ UNCHANGED <<once, fires>>

\* The ack never finding that it is the last one.
readerAckNeverLast(id, e) ==
    /\ BeginCall(id, e)
    /\ pending' = pending - 1
    /\ ackDo' = [ackDo EXCEPT ![id] = FALSE]
    /\ ackpc' = [ackpc EXCEPT ![id] = "unlocked"]
    /\ UNCHANGED <<once, fires>>

\* The ack of a multi-part reader, up to the unlock.
readerAck(id, e) ==
    /\ BeginCall(id, e)
    /\ pending' = pending - 1
    /\ ackDo' = [ackDo EXCEPT ![id] = (pending - 1 = 0 /\ finished)]
    /\ ackpc' = [ackpc EXCEPT ![id] = "unlocked"]
    /\ UNCHANGED <<once, fires>>

\* The ack after the unlock, passing an error on only when doAck is set.
readerAckSourceWhenDone(id) ==
    /\ SetAck(IF ackDo[id] THEN ackOnce(AckState, ackErr[id]) ELSE AckState)
    /\ ackpc' = [ackpc EXCEPT ![id] = "done"]

\* The ack of a multi-part reader, after the unlock.
readerAckSource(id) ==
    /\ SetAck(IF ackErr[id] # Nil THEN ackOnce(AckState, ackErr[id])
              ELSE IF ackDo[id] THEN ackOnce(AckState, Nil)
              ELSE AckState)
    /\ ackpc' = [ackpc EXCEPT ![id] = "done"]

\* A call of the ack closure of result id begins.
AckCall(id, e) ==
    /\ IF kind = "all-bytes" THEN allBytesReaderAck(id, e) ELSE readerAck(id, e)
    /\ UNCHANGED <<kind, wrapped, closed, consumed, finished, ups, nextRet, srcErr>>

----------------------------------------------------------------------------
\* Close.

allBytesReaderClose ==
    IF ~consumed
    THEN SetAck(rawAck(AckState, Shutdown))
    ELSE UNCHANGED <<once, fires>>

\* linesReader.Close without the acknowledgment of a drained source.
linesReaderCloseNoNil ==
    SetAck(IF ~finished THEN ackOnce(AckState, Shutdown) ELSE AckState)

\* linesReader.Close with its two checks in the other order.
linesReaderCloseNilFirst ==
    LET s1 == IF pending = 0 THEN ackOnce(AckState, Nil) ELSE AckState
        s2 == IF ~finished THEN ackOnce(s1, Shutdown) ELSE s1
    IN  SetAck(s2)

linesReaderClose ==
    LET s1 == IF ~finished THEN ackOnce(AckState, Shutdown) ELSE AckState
        s2 == IF pending = 0 THEN ackOnce(s1, Nil) ELSE s1
    IN  SetAck(s2)

readerClose ==
    IF kind = "all-bytes" THEN allBytesReaderClose ELSE linesReaderClose

----------------------------------------------------------------------------
\* The multipart wrapper.

\* len(p) == 0, or len(p) == 1 with an empty payload.
isEmpty(p) ==
    \/ Len(p) = 0
    \/ (Len(p) = 1 /\ p[1] = 0)

Batch(parts, acks) ==
    [parts |-> parts, acks |-> acks, st |-> "new", pos |-> 0, err |-> Nil]

\* return parts, ackFn, nil
multipartReturnBatch ==
    /\ batches' = Append(batches, Batch(wparts, wacks))
    /\ mret' = Ret("batch", Nil)
    /\ wpc' = "idle"
    /\ UNCHANGED <<wparts, wacks, wcur, dropped>>

\* return nil, nil, err
multipartReturnErr(r) ==
    /\ mret' = r
    /\ wpc' = "idle"
    /\ dropped' = dropped \cup {wacks[k] : k \in DOMAIN wacks}
    /\ UNCHANGED <<wparts, wacks, wcur, batches>>

\* multipartReader.Next returning every error of its child as it is.
multipartReaderNextNoFlush(o) ==
    /\ readerNext(o)
    /\ IF nextRet'.err # Nil
       THEN multipartReturnErr(nextRet')
       ELSE LET id == Len(ups') IN
            IF isEmpty(ups'[id].parts)
            THEN /\ wpc' = IF ups'[id].hasAck THEN "acking" ELSE "panic"
                 /\ wcur' = id
                 /\ UNCHANGED <<wparts, wacks, batches, mret, dropped>>
            ELSE /\ wparts' = wparts \o ups'[id].parts
                 /\ wacks' = Append(wacks, id)
                 /\ UNCHANGED <<wpc, wcur, batches, mret, dropped>>

\* One pass of the loop of multipartReader.Next, up to the call of an ack.
multipartReaderNext(o) ==
    /\ readerNext(o)
    /\ IF nextRet'.err # Nil
       THEN IF nextRet'.err = EOF /\ Len(wparts) > 0
            THEN multipartReturnBatch
            ELSE multipartReturnErr(nextRet')
       ELSE LET id == Len(ups') IN
            IF isEmpty(ups'[id].parts)
            THEN /\ wpc' = IF ups'[id].hasAck THEN "acking" ELSE "panic"
                 /\ wcur' = id
                 /\ UNCHANGED <<wparts, wacks, batches, mret, dropped>>
            ELSE /\ wparts' = wparts \o ups'[id].parts
                 /\ wacks' = Append(wacks, id)
                 /\ UNCHANGED <<wpc, wcur, batches, mret, dropped>>

\* multipartReader.Next after the ack of an empty result returned.
multipartReaderNextAcked ==
    IF Len(wparts) > 0
    THEN multipartReturnBatch
    ELSE /\ wpc' = "loop"
         /\ UNCHANGED <<wparts, wacks, wcur, batches, mret, dropped>>

\* The result whose ack the combined ack of batch b calls next.
BatchCur(b) == batches[b].acks[batches[b].pos]

----------------------------------------------------------------------------
\* The actions.

Init ==
    /\ kind \in Kinds
    /\ wrapped \in BOOLEAN
    /\ consumed = FALSE
    /\ finished = FALSE
    /\ pending = 0
    /\ once = FALSE
    /\ fires = <<>>
    /\ closed = FALSE
    /\ ups = <<>>
    /\ nextRet = Ret("none", Nil)
    /\ srcErr = Nil
    /\ ackpc = [i \in Ids |-> "none"]
    /\ ackErr = [i \in Ids |-> Nil]
    /\ ackDo = [i \in Ids |-> FALSE]
    /\ ackArgs = [i \in Ids |-> <<>>]
    /\ ackUnfired = [i \in Ids |-> FALSE]
    /\ wpc = "idle"
    /\ wparts = <<>>
    /\ wacks = <<>>
    /\ wcur = 0
    /\ batches = <<>>
    /\ mret = Ret("none", Nil)
    /\ dropped = {}
    /\ CtorOff
    /\ ChunkOff
    /\ ArithOff
    /\ SetOff
    /\ MethOff

\* Calling a nil ack function panics, and the panic ends the process.
Alive == wpc # "panic"

\* The consumer calls Next of a leaf reader.  An error other than EOF ends
\* the use of the reader: the consumer goes on to Close.
Next(o) ==
    /\ ~wrapped /\ ~closed
    /\ nextRet.t # "err"
    /\ readerNext(o)
    /\ UNCHANGED <<kind, wrapped, closed, ackVars, wrapVars>>
    /\ UNCHANGED restVars

\* A thread calls the ack closure of an emitted part.
Ack(id, e) ==
    /\ Alive
    /\ ~wrapped
    /\ id <= Len(ups) /\ ups[id].hasAck
    /\ ackpc[id] = "none"
    /\ AckCall(id, e)
    /\ UNCHANGED wrapVars
    /\ UNCHANGED restVars

\* The same closure is called again.
ReAck(id, e) ==
    /\ Alive
    /\ ~wrapped
    /\ ackpc[id] = "done"
    /\ Len(ackArgs[id]) < MaxAckCalls
    /\ AckCall(id, e)
    /\ UNCHANGED wrapVars
    /\ UNCHANGED restVars

\* A running ack goes on after it unlocked the mutex.
AckSource(id) ==
    /\ Alive
    /\ ackpc[id] = "unlocked"
    /\ readerAckSource(id)
    /\ UNCHANGED <<kind, wrapped, closed, consumed, finished, pending, ups,
                   nextRet, srcErr, ackErr, ackDo, ackArgs, ackUnfired, wrapVars>>
    /\ UNCHANGED restVars

\* The consumer calls Close, on the leaf reader or through the wrapper.
Close ==
    /\ ~closed
    /\ wpc = "idle"
    /\ closed' = TRUE
    /\ readerClose
    /\ UNCHANGED <<kind, wrapped, consumed, finished, pending, ups, nextRet,
                   srcErr, ackVars, wrapVars>>
    /\ UNCHANGED restVars

\* Next of the wrapper with parts and acks living across calls.
MNextKeep ==
    /\ wrapped /\ ~closed
    /\ wpc = "idle"
    /\ mret.t # "err"
    /\ wpc' = "loop"
    /\ UNCHANGED <<kind, wrapped, closed, leafVars, ackVars, wparts, wacks, wcur,
                   batches, mret, dropped>>
    /\ UNCHANGED restVars

\* The consumer calls Next of the wrapper.
MNext ==
    /\ wrapped /\ ~closed
    /\ wpc = "idle"
    /\ mret.t # "err"
    /\ wpc' = "loop"
    /\ wparts' = <<>>
    /\ wacks' = <<>>
    /\ UNCHANGED <<kind, wrapped, closed, leafVars, ackVars, wcur, batches, mret, dropped>>
    /\ UNCHANGED restVars

\* Next of the wrapper called again after it returned an error, with the
\* parts and acks of the failed call still there.
MNextRetryKeep ==
    /\ wrapped /\ ~closed
    /\ wpc = "idle"
    /\ mret.t = "err"
    /\ wpc' = "loop"
    /\ UNCHANGED <<kind, wrapped, closed, leafVars, ackVars, wparts, wacks, wcur,
                   batches, mret, dropped>>
    /\ UNCHANGED restVars

\* The consumer calls Next of the wrapper again after it returned an error:
\* parts and acks are new variables of the call.
MNextRetry ==
    /\ wrapped /\ ~closed
    /\ wpc = "idle"
    /\ mret.t = "err"
    /\ wpc' = "loop"
    /\ wparts' = <<>>
    /\ wacks' = <<>>
    /\ UNCHANGED <<kind, wrapped, closed, leafVars, ackVars, wcur, batches, mret, dropped>>
    /\ UNCHANGED restVars

MNextRead(o) ==
    /\ wpc = "loop"
    /\ multipartReaderNext(o)
    /\ UNCHANGED <<kind, wrapped, closed, ackVars>>
    /\ UNCHANGED restVars

\* The wrapper calls the ack of the empty result it read.
MNextAck ==
    /\ wpc = "acking"
    /\ ackpc[wcur] = "none"
    /\ AckCall(wcur, Nil)
    /\ UNCHANGED wrapVars
    /\ UNCHANGED restVars

MNextAcked ==
    /\ wpc = "acking"
    /\ ackpc[wcur] = "done"
    /\ multipartReaderNextAcked
    /\ UNCHANGED <<kind, wrapped, closed, leafVars, ackVars>>
    /\ UNCHANGED restVars

\* A thread calls the combined ack of a returned batch.
BatchAck(b, e) ==
    /\ Alive
    /\ b \in 1..Len(batches)
    /\ batches[b].st = "new"
    /\ batches' = [batches EXCEPT ![b].st = "running", ![b].pos = 1, ![b].err = e]
    /\ UNCHANGED <<kind, wrapped, closed, leafVars, ackVars, wpc, wparts, wacks,
                   wcur, mret, dropped>>
    /\ UNCHANGED restVars

\* The combined ack calls the next upstream ack.
BatchFwd(b) ==
    /\ Alive
    /\ b \in 1..Len(batches)
    /\ batches[b].st = "running"
    /\ ackpc[BatchCur(b)] = "none"
    /\ AckCall(BatchCur(b), batches[b].err)
    /\ UNCHANGED wrapVars
    /\ UNCHANGED restVars

\* The upstream ack returned: the loop of the combined ack goes on.
BatchAdvance(b) ==
    /\ Alive
    /\ b \in 1..Len(batches)
    /\ batches[b].st = "running"
    /\ ackpc[BatchCur(b)] = "done"
    /\ batches' = IF batches[b].pos = Len(batches[b].acks)
                  THEN [batches EXCEPT ![b].st = "done", ![b].pos = @ + 1]
                  ELSE [batches EXCEPT ![b].pos = @ + 1]
    /\ UNCHANGED <<kind, wrapped, closed, leafVars, ackVars, wpc, wparts, wacks,
                   wcur, mret, dropped>>
    /\ UNCHANGED restVars

Step ==
    \/ \E o \in Outcomes : Next(o)
    \/ \E id \in Ids, e \in AckErrs \cup {Nil} : Ack(id, e)
    \/ \E id \in Ids : AckSource(id)
    \/ Close
    \/ MNext
    \/ \E o \in Outcomes : MNextRead(o)
    \/ MNextAck
    \/ MNextAcked
    \/ \E b \in Ids, e \in AckErrs \cup {Nil} : BatchAck(b, e)
    \/ \E b \in Ids : BatchFwd(b)
    \/ \E b \in Ids : BatchAdvance(b)

\* Every ack closure is called at most once.
Spec == Init /\ [][Step]_vars

\* Ack closures of a leaf reader may be called up to MaxAckCalls times.
StepReack ==
    \/ Step
    \/ \E id \in Ids, e \in AckErrs \cup {Nil} : ReAck(id, e)

SpecReack == Init /\ [][StepReack]_vars

\* The wrapper, with Next called again after it returned an error.
InitWrapped == Init /\ wrapped

StepRetry ==
    \/ MNext
    \/ MNextRetry
    \/ \E o \in Outcomes : MNextRead(o)
    \/ MNextAck
    \/ MNextAcked
    \/ \E id \in Ids : AckSource(id)
    \/ \E b \in Ids, e \in AckErrs \cup {Nil} : BatchAck(b, e)
    \/ \E b \in Ids : BatchFwd(b)
    \/ \E b \in Ids : BatchAdvance(b)
    \/ Close

SpecRetry == InitWrapped /\ [][StepRetry]_vars

----------------------------------------------------------------------------
\* Properties.

Emitted == 1..Len(ups)
Acked(id) == ups[id].hasAck => ackpc[id] = "done"
AllAcked == \A id \in Emitted : Acked(id)
AllAckedNil == \A id \in Emitted : ups[id].hasAck => (ackpc[id] = "done" /\ ackArgs[id] = <<Nil>>)
FiredWith(e) == \E k \in 1..Len(fires) : fires[k] = e

\* C1: over the lifetime of a multi-part leaf reader the source-ack callback
\* is never invoked twice, and once Close was called and the ack of every
\* emitted part has returned it has been invoked exactly once.
C1_SourceAckExactlyOnce ==
    kind \in MultiPartKinds =>
        /\ Len(fires) <= 1
        /\ (closed /\ AllAcked => Len(fires) = 1)

\* Two parts were acked with an error, Close was called, one invocation.
C1_Witness ==
    /\ kind \in MultiPartKinds /\ closed /\ AllAcked /\ Len(fires) = 1
    /\ \E i, j \in Emitted : i # j /\ ackArgs[i] = <<"ackErr">> /\ ackArgs[j] = <<"ackErr">>

\* C2: the source-ack of a multi-part leaf reader is invoked with nil only if
\* Next observed EOF and the ack of every emitted part was called with nil;
\* and if some ack was called with an error before the source-ack fired, the
\* source-ack fires with an error, never with nil.
C2_NilOnlyAfterCleanEOF ==
    kind \in MultiPartKinds =>
        /\ FiredWith(Nil) =>
              (finished /\ \A id \in Emitted : ups[id].hasAck => ackArgs[id] = <<Nil>>)
        /\ (fires # <<>> /\ \E id \in Emitted : ackArgs[id] # <<>> /\ ackErr[id] # Nil /\ ackUnfired[id])
              => fires[1] # Nil

\* C3: whatever reader was built, the all-bytes reader included, the
\* callback is invoked at most once, also when ack closures are called again.
C3_AtMostOnceEveryKind == Len(fires) <= 1

\* C4 as claimed: in a multi-part leaf reader, whenever finished is set,
\* pending is 0 and every emitted part was acked with nil, the source-ack has
\* been fired with nil, Close or no Close.
C4_FiredWithoutClose ==
    (kind \in MultiPartKinds /\ finished /\ pending = 0 /\ AllAckedNil)
        => fires = <<Nil>>

\* Some ack ran its locked section after Next had observed EOF and found
\* pending at 0.
LateAck == \E id \in Emitted : ackDo[id]

\* C4 as amended: with finished set, no Next having failed, and every emitted
\* part acked with nil, the source-ack has been fired with nil if the last ack came after Next
\* observed EOF or Close has been called; otherwise (every ack before EOF, or
\* no part at all) it has not fired and waits for Close.
C4_FiredAfterLateAckOrClose ==
    (kind \in MultiPartKinds /\ finished /\ pending = 0 /\ AllAckedNil
        /\ nextRet.t # "err") =>
        IF closed \/ LateAck THEN fires = <<Nil>> ELSE fires = <<>>

\* Every ack preceded EOF, and Close fired the source-ack with nil.
C4_Witness ==
    /\ kind \in MultiPartKinds /\ finished /\ pending = 0 /\ AllAckedNil
    /\ Len(ups) >= 2 /\ ~LateAck /\ closed /\ fires = <<Nil>>

C6_CloseBeforeEOF ==
    [][(~closed /\ closed') =>
          /\ ((IF kind = "all-bytes" THEN ~consumed ELSE ~finished) /\ fires = <<>>)
                => fires' = <<Shutdown>>
          /\ fires # <<>> => fires' = fires]_vars

\* Closed before EOF with every emitted part acked: the shutdown error.
C6_Witness ==
    /\ kind \in MultiPartKinds /\ closed /\ ~finished
    /\ Len(ups) >= 1 /\ pending = 0 /\ AllAckedNil
    /\ fires = <<Shutdown>>

\* C7: a step in which Next of a leaf reader returns an error other than EOF
\* returns the error of the source unchanged, and invokes the source-ack with
\* it unless the source-ack had fired before.
C7_NextErrorAcked ==
    [][(nextRet.t # "err" /\ nextRet'.t = "err") =>
          /\ nextRet'.err \in IOErrs
          /\ nextRet'.err = srcErr'
          /\ fires' = IF fires = <<>> THEN <<srcErr'>> ELSE fires]_vars

\* Next failed with parts outstanding and the source-ack carries the error.
C7_Witness ==
    /\ kind \in MultiPartKinds /\ nextRet.t = "err" /\ pending > 0
    /\ fires = <<nextRet.err>>

\* An empty result: no sub-parts, or one sub-part of length zero.
EmptyPart(p) == Len(p) = 0 \/ (Len(p) = 1 /\ p[1] = 0)

Run(parts, acks) == [parts |-> parts, acks |-> acks]

\* The maximal runs of consecutive non-empty results of rs from index i on,
\* cur being the run that is open at i.
RECURSIVE Runs(_, _, _)
Runs(rs, i, cur) ==
    IF i > Len(rs)
    THEN IF cur.acks = <<>> THEN <<>> ELSE <<cur>>
    ELSE IF EmptyPart(rs[i].parts)
    THEN IF cur.acks = <<>>
         THEN Runs(rs, i + 1, cur)
         ELSE <<cur>> \o Runs(rs, i + 1, Run(<<>>, <<>>))
    ELSE Runs(rs, i + 1, Run(cur.parts \o rs[i].parts, Append(cur.acks, i)))

Returned == [b \in 1..Len(batches) |-> Run(batches[b].parts, batches[b].acks)]

\* C8: as long as the upstream returned no error other than EOF, the batches
\* the wrapper has returned, followed by the run it is accumulating, are the
\* maximal runs of non-empty upstream results in order, each once; between
\* calls nothing is accumulated, and the wrapper returns EOF only at an
\* upstream EOF, after it returned every run.
C8_BatchesAreRuns ==
    (wrapped /\ mret.t # "err" /\ wpc # "panic") =>
        /\ Returned \o (IF wpc # "idle" /\ wacks # <<>> THEN <<Run(wparts, wacks)>> ELSE <<>>)
              = Runs(ups, 1, Run(<<>>, <<>>))
        /\ (wpc = "idle" /\ mret.t = "eof") => nextRet.t = "eof"

\* Two runs were returned as two batches, the second at EOF, then EOF.
C8_Witness ==
    /\ wrapped /\ wpc = "idle" /\ mret.t = "eof"
    /\ Len(batches) = 2 /\ Len(ups) = 3

\* C9 as claimed, second half: with lines/multipart the source-ack fires only
\* after the combined acks of all returned batches have been forwarded, that
\* is after the ack of every result of every returned batch was called.
C9_FiresAfterAllBatches ==
    (wrapped /\ kind = "lines" /\ fires # <<>>) =>
        \A b \in 1..Len(batches) : \A k \in 1..Len(batches[b].acks) :
            ackArgs[batches[b].acks[k]] # <<>>

\* C9 as amended: the combined ack of a batch called with e calls the ack of
\* each result of that batch once with e, in order, and of no other batch;
\* and the source-ack fires with nil only after the ack of every result of
\* every returned batch has been called.
C9_CombinedAckForwards ==
    wrapped =>
        /\ \A b \in 1..Len(batches) : \A k \in 1..Len(batches[b].acks) :
              LET id == batches[b].acks[k] IN
              ackArgs[id] =
                  IF k < batches[b].pos \/ (k = batches[b].pos /\ ackpc[id] # "none")
                  THEN <<batches[b].err>> ELSE <<>>
        /\ fires = <<Nil>> =>
              \A b \in 1..Len(batches) : \A k \in 1..Len(batches[b].acks) :
                  ackArgs[batches[b].acks[k]] # <<>>

\* The first of two batches was acked with an error, the second not yet.
C9_Witness ==
    /\ wrapped /\ Len(batches) = 2
    /\ batches[1].st = "done" /\ batches[1].err = "ackErr"
    /\ batches[2].st = "new"
    /\ fires = <<"ackErr">>

\* C10: every empty result the wrapper has read has had its ack called with
\* nil (or is having it called right now), is in no returned batch, and no
\* returned batch is empty.
C10_EmptyResultsAcked ==
    wrapped =>
        /\ \A id \in Emitted : EmptyPart(ups[id].parts) =>
              /\ ackArgs[id] = <<Nil>> \/ (wpc = "acking" /\ wcur = id)
              /\ \A b \in 1..Len(batches) : \A k \in 1..Len(batches[b].acks) :
                    batches[b].acks[k] # id
        /\ \A b \in 1..Len(batches) : batches[b].parts # <<>>

\* The results that came with an ack closure that has not been called.
Unacked == {id \in Emitted : ups[id].hasAck /\ ackpc[id] = "none"}

\* C26: in a multi-part leaf reader whose ack closures are called at most
\* once each, pending is the number of parts Next has returned whose ack has
\* not been called, and so never negative, whatever the order of the calls
\* of Next, of the acks and of Close.
C26_PendingCountsUnacked ==
    kind \in MultiPartKinds =>
        /\ pending = Cardinality(Unacked)
        /\ \A id \in Unacked : Len(ups[id].parts) = 1
        /\ pending >= 0

\* Three parts were returned, one was acked with an error and one with nil
\* after Close: one is pending.
C26_Witness ==
    /\ kind \in MultiPartKinds /\ closed /\ Len(ups) = 3 /\ pending = 1
    /\ \E i, j \in Emitted : ackArgs[i] = <<"ackErr">> /\ ackArgs[j] = <<Nil>>

\* The results whose ack closure has not returned.
Outstanding == {id \in Emitted : ups[id].hasAck /\ ackpc[id] # "done"}

\* C27: once Close was called on a multi-part leaf reader, the source-ack has
\* fired unless Next had observed EOF and the ack of some emitted part has not
\* returned; it fires, at the latest, when the ack of the last such part
\* returns, so with every emitted part acked it has fired.
C27_FiredAfterCloseOrLastAck ==
    (kind \in MultiPartKinds /\ closed) =>
        /\ fires = <<>> => (finished /\ Outstanding # {})
        /\ Outstanding = {} => Len(fires) = 1

\* Close found EOF observed and a part outstanding and fired nothing; the
\* ack of that part, the last one, fired nil afterwards.
C27_Witness ==
    /\ kind \in MultiPartKinds /\ closed /\ finished
    /\ Len(ups) = 2 /\ Outstanding = {}
    /\ \E id \in Emitted : ackDo[id] /\ ackUnfired[id] /\ ackArgs[id] = <<Nil>>
    /\ fires = <<Nil>>

\* C28: every result Next of a leaf reader returned with a nil error holds at
\* least one part and came with an ack function, and the multipart wrapper
\* never calls a nil ack function.
C28_NilErrorComesWithAck ==
    /\ \A id \in Emitted : Len(ups[id].parts) >= 1 /\ ups[id].hasAck
    /\ nextRet.err = Nil /\ nextRet.t # "none" => Len(ups) >= 1
    /\ Alive

\* C29: when the upstream of the wrapper returns an error other than EOF,
\* Next returns that error and no batch; the results accumulated for the
\* batch at that moment are in no batch the wrapper returns, then or in a
\* later call, and the wrapper never calls their acks.
C29_FailedBatchDropped ==
    wrapped =>
        /\ (wpc = "idle" /\ mret.t = "err") => (mret.err = srcErr /\ mret.err \in IOErrs)
        /\ \A id \in dropped :
              /\ ackArgs[id] = <<>> /\ ackpc[id] = "none"
              /\ \A b \in 1..Len(batches) : \A k \in 1..Len(batches[b].acks) :
                    batches[b].acks[k] # id
        /\ \A b \in 1..Len(batches) :
              Len(batches[b].parts) = Len(batches[b].acks) /\ batches[b].acks # <<>>

\* Next failed with the first result accumulated; a later call returned the
\* result read after it as a batch, and the batch was acked.
C29_Witness ==
    /\ wrapped /\ dropped = {1}
    /\ Len(batches) = 1 /\ batches[1].acks = <<2>> /\ batches[1].st = "done"
    /\ ackArgs[1] = <<>> /\ ackArgs[2] # <<>>


----------------------------------------------------------------------------
\* Codec strings.  strings.Split(codec, "/") turns the codec string into its
\* tokens; a token is written here as its fields between the ':' (so
\* "delim:x" is <<"delim", "x">> and "gzip" is <<"gzip">>), and a path as its
\* pieces between the '.' (so "a.csv.gz" is <<"a", "csv", "gz">>).

MaxTokens == 3         \* tokens of a codec string
MaxPieces == 3         \* pieces of a path

Tokens ==
    {<<"gzip">>, <<"all-bytes">>, <<"lines">>, <<"csv">>, <<"tar">>, <<"multipart">>,
     <<"delim", "x">>, <<"delim", "">>, <<"delim">>, <<"chunker", "2">>,
     <<"chunker", "x">>, <<"">>, <<"foo">>, <<"auto">>, <<"csv-gzip">>, <<"tar-gzip">>}

Pieces == {"a", "csv", "gz", "gzip", "tar", "tgz", "d/f"}

\* The decimal strings among the fields of Tokens.
Uints == {"2"}

SeqsUpTo(S, n) == UNION {[1..k -> S] : k \in 1..n}
CodecStrings == SeqsUpTo(Tokens, MaxTokens)
Paths == SeqsUpTo(Pieces, MaxPieces)

\* strings.HasPrefix(codec, name + ":") and strings.TrimPrefix of it.
HasPrefix(c, name) == Len(c) > 1 /\ c[1] = name
TrimPrefix(c) == c[2]

\* The error values of chainedReader and partReader: the message, the tokens
\* it prints, and the token list it prints.
CodecErr(msg, args, list) == [msg |-> msg, args |-> args, list |-> list]
UnableToFollowSwapped(a, b) == CodecErr("unable to follow codec", <<b, a>>, <<>>)
UnableToFollow(a, b) == CodecErr("unable to follow codec", <<a, b>>, <<>>)
NotRecognised(x) == CodecErr("codec was not recognised", <<x>>, <<>>)
NotRecognisedList(xs) == CodecErr("codec was not recognised", <<>>, xs)
MustBePreceded(x) == CodecErr("must be preceded by a structured codec", <<x>>, <<>>)
EmptyDelim == CodecErr("custom delimiter codec requires a non-empty delimiter", <<>>, <<>>)
InvalidChunkSize(x) == CodecErr("invalid chunk size for chunker codec", <<x>>, <<>>)
\* The nil error of a constructor.
NoErr == CodecErr("", <<>>, <<>>)

\* A constructor is the sequence of the stages it builds, innermost first;
\* <<>> is the nil constructor.
Made(ctor) == [err |-> NoErr, ctor |-> ctor]
Fail(err) == [err |-> err, ctor |-> <<>>]

ioReader(c) == c = <<"gzip">>

readerReader(c) == c = <<"multipart">>

PartCtor(ok, err) == [ok |-> ok, err |-> err]

partReaderAnyDelim(c) ==
    IF c \in {<<"all-bytes">>, <<"lines">>, <<"csv">>, <<"tar">>} THEN PartCtor(TRUE, NoErr)
    ELSE IF HasPrefix(c, "delim") THEN PartCtor(TRUE, NoErr)
    ELSE IF HasPrefix(c, "chunker")
         THEN IF TrimPrefix(c) \notin Uints
              THEN PartCtor(FALSE, InvalidChunkSize(c))
              ELSE PartCtor(TRUE, NoErr)
    ELSE PartCtor(FALSE, NoErr)

partReader(c) ==
    IF c \in {<<"all-bytes">>, <<"lines">>, <<"csv">>, <<"tar">>} THEN PartCtor(TRUE, NoErr)
    ELSE IF HasPrefix(c, "delim")
         THEN IF TrimPrefix(c) = ""
              THEN PartCtor(FALSE, EmptyDelim)
              ELSE PartCtor(TRUE, NoErr)
    ELSE IF HasPrefix(c, "chunker")
         THEN IF TrimPrefix(c) \notin Uints
              THEN PartCtor(FALSE, InvalidChunkSize(c))
              ELSE PartCtor(TRUE, NoErr)
    ELSE PartCtor(FALSE, NoErr)

\* The loop of chainedReader from token i on.
RECURSIVE chainedReaderLoop(_, _, _, _)
chainedReaderLoop(codecs, i, ioCtor, partCtor) ==
    IF i > Len(codecs)
    THEN IF partCtor = <<>> THEN Fail(NotRecognisedList(codecs)) ELSE Made(partCtor)
    ELSE LET c == codecs[i]
             p == partReader(c)
         IN  IF ioReader(c)
             THEN IF partCtor # <<>>
                  THEN Fail(UnableToFollow(codecs[i - 1], c))
                  ELSE chainedReaderLoop(codecs, i + 1, Append(ioCtor, c[1]), partCtor)
             ELSE IF p.err # NoErr THEN Fail(p.err)
             ELSE IF p.ok
             THEN IF partCtor # <<>>
                  THEN Fail(UnableToFollow(codecs[i - 1], c))
                  ELSE chainedReaderLoop(codecs, i + 1, <<>>, Append(ioCtor, c[1]))
             ELSE IF ~readerReader(c) THEN Fail(NotRecognised(c))
             ELSE IF partCtor = <<>> THEN Fail(MustBePreceded(c))
             ELSE chainedReaderLoop(codecs, i + 1, ioCtor, Append(partCtor, c[1]))

chainedReader(codecs) == chainedReaderLoop(codecs, 1, <<>>, <<>>)

convertDeprecatedCodec(c) ==
    IF c = << <<"csv-gzip">> >> THEN << <<"gzip">>, <<"csv">> >>
    ELSE IF c = << <<"tar-gzip">> >> THEN << <<"gzip">>, <<"tar">> >>
    ELSE c

GetReader(c) ==
    IF convertDeprecatedCodec(c) = << <<"auto">> >>
    THEN Made(<<"auto">>)
    ELSE chainedReader(convertDeprecatedCodec(c))

\* filepath.Ext: the suffix from the last '.' of the last element of the
\* path, as its pieces; <<>> when the last element has no '.'.
HasSep(piece) == piece = "d/f"
Ext(p) == IF Len(p) > 1 /\ ~HasSep(p[Len(p)]) THEN <<p[Len(p)]>> ELSE <<>>

\* strings.HasSuffix(path, "." + the pieces of suf joined by '.').
HasSuffix(p, suf) ==
    /\ Len(p) > Len(suf)
    /\ \A k \in 1..Len(suf) : p[Len(p) - Len(suf) + k] = suf[k]

\* The codec autoCodec picks for a path.
autoCodecChoice(p) ==
    LET byExt == IF Ext(p) = <<"csv">> THEN << <<"csv">> >>
                 ELSE IF Ext(p) \in {<<"csv", "gz">>, <<"csv", "gzip">>}
                 THEN << <<"gzip">>, <<"csv">> >>
                 ELSE IF Ext(p) = <<"tar">> THEN << <<"tar">> >>
                 ELSE IF Ext(p) = <<"tgz">> THEN << <<"gzip">>, <<"tar">> >>
                 ELSE << <<"all-bytes">> >>
    IN  IF HasSuffix(p, <<"tar", "gzip">>) THEN << <<"gzip">>, <<"tar">> >>
        ELSE IF HasSuffix(p, <<"tar", "gz">>) THEN << <<"gzip">>, <<"tar">> >>
        ELSE byExt


\* Calling a constructor.  The objects of a call are numbered: 0 is the byte
\* source the constructor is given and k is what stage k builds from object
\* k - 1.  The construction of a gzip stage fails when gzip.NewReader cannot
\* read a gzip header, that of a csv stage when the header record cannot be
\* read; the other constructors return no error.
CanFail(stage) == stage \in {"gzip", "csv"}

CtorFailed == CodecErr("construction failed", <<>>, <<>>)
FailedToInfer == CodecErr("failed to infer codec", <<>>, <<>>)

Built(err, used, open) == [err |-> err, used |-> used, open |-> open]

\* The objects a call of Close on object j closes: a gzip.Reader closes
\* itself and not the reader under it, a leaf reader closes its r, the
\* multipart reader closes its child.
RECURSIVE closeObj(_, _)
closeObj(stages, j) ==
    IF j = 0 THEN {0}
    ELSE IF stages[j] = "gzip" THEN {j}
    ELSE {j} \cup closeObj(stages, j - 1)

\* What the failing constructor of stage k closes itself.
closedByStage(stages, k) ==
    IF stages[k] = "gzip" THEN closeObj(stages, k - 1) ELSE {}

\* What the chaining constructor closes when its second constructor failed.
closedByChain(stages, k) ==
    IF k > 1 THEN closeObj(stages, k - 1) ELSE {}

\* The stages run in order; fail is the stage whose construction fails,
\* 0 when none does.
runStages(stages, fail) ==
    IF fail = 0
    THEN Built(NoErr, stages, 0..Len(stages))
    ELSE Built(CtorFailed, stages,
               (0..(fail - 1)) \ (closedByStage(stages, fail) \cup closedByChain(stages, fail)))

autoCodec(p, fail) ==
    LET g == GetReader(autoCodecChoice(p))
    IN  IF g.err # NoErr THEN Built(FailedToInfer, <<>>, {0}) ELSE runStages(g.ctor, fail)

callCtor(ctor, p, fail) ==
    IF ctor = <<"auto">> THEN autoCodec(p, fail) ELSE runStages(ctor, fail)

\* The stages a constructor runs for a path.
Stages(ctor, p) ==
    IF ctor = <<"auto">> THEN GetReader(autoCodecChoice(p)).ctor ELSE ctor

\* No reader is in use.
ReaderOff ==
    /\ kind = "all-bytes"
    /\ wrapped = FALSE
    /\ consumed = FALSE
    /\ finished = FALSE
    /\ pending = 0
    /\ once = FALSE
    /\ fires = <<>>
    /\ closed = FALSE
    /\ ups = <<>>
    /\ nextRet = Ret("none", Nil)
    /\ srcErr = Nil
    /\ ackpc = [i \in Ids |-> "none"]
    /\ ackErr = [i \in Ids |-> Nil]
    /\ ackDo = [i \in Ids |-> FALSE]
    /\ ackArgs = [i \in Ids |-> <<>>]
    /\ ackUnfired = [i \in Ids |-> FALSE]
    /\ wpc = "idle"
    /\ wparts = <<>>
    /\ wacks = <<>>
    /\ wcur = 0
    /\ batches = <<>>
    /\ mret = Ret("none", Nil)
    /\ dropped = {}

\* A codec string is given; a path matters to the codec auto only.
CtorInit ==
    /\ ReaderOff
    /\ ChunkOff
    /\ ArithOff
    /\ SetOff
    /\ MethOff
    /\ codec \in CodecStrings
    /\ path \in (IF codec = << <<"auto">> >> THEN Paths ELSE {<<"a">>})
    /\ got = <<>>
    /\ built = <<>>
    /\ cpc = "start"

GetReaderCall ==
    /\ cpc = "start"
    /\ got' = GetReader(codec)
    /\ cpc' = "got"
    /\ UNCHANGED <<codec, path, built>>
    /\ UNCHANGED ctorFrame

\* The constructor GetReader returned is called with the path and a source.
CtorCall(fail) ==
    /\ cpc = "got"
    /\ got.err = NoErr
    /\ fail <= Len(Stages(got.ctor, path))
    /\ fail > 0 => CanFail(Stages(got.ctor, path)[fail])
    /\ built' = callCtor(got.ctor, path, fail)
    /\ cpc' = "built"
    /\ UNCHANGED <<codec, path, got>>
    /\ UNCHANGED ctorFrame

StepCtor ==
    \/ GetReaderCall
    \/ \E fail \in 0..MaxTokens : CtorCall(fail)

SpecCtor == CtorInit /\ [][StepCtor]_vars


----------------------------------------------------------------------------
\* Properties of codec strings and constructors.

\* The token classes of the composition grammar.
ByteTransform(t) == t = <<"gzip">>
Leaf(t) ==
    \/ t \in {<<"all-bytes">>, <<"lines">>, <<"csv">>, <<"tar">>}
    \/ Len(t) = 2 /\ t[1] = "delim" /\ t[2] # ""
    \/ Len(t) = 2 /\ t[1] = "chunker" /\ t[2] \in Uints
PartWrapper(t) == t = <<"multipart">>

\* Byte-transforms, then exactly one leaf, then part-wrappers.
Grammar(c) ==
    \E n \in 1..Len(c) :
        /\ Leaf(c[n])
        /\ \A k \in 1..(n - 1) : ByteTransform(c[k])
        /\ \A k \in (n + 1)..Len(c) : PartWrapper(c[k])

Resolved == cpc \in {"got", "built"}
Accepted == got.err = NoErr

\* The codec strings that are accepted as a whole, before they are split.
WholeForms == {<< <<"auto">> >>, << <<"csv-gzip">> >>, << <<"tar-gzip">> >>}

\* C11 as stated: GetReader accepts a codec string if and only if its tokens
\* are byte-transforms, then exactly one leaf, then part-wrappers.
C11_AcceptsGrammarOnly == Resolved => (Accepted <=> Grammar(codec))

\* C11 amended: GetReader accepts a codec string if and only if its tokens
\* are byte-transforms, then exactly one leaf, then part-wrappers, or the
\* whole string is auto, csv-gzip or tar-gzip.
C11_AcceptsGrammarOrWholeForm ==
    Resolved => (Accepted <=> (Grammar(codec) \/ codec \in WholeForms))

C11_Witness ==
    /\ cpc = "got"
    /\ Accepted
    /\ codec = << <<"gzip">>, <<"delim", "x">>, <<"multipart">> >>


\* The first i tokens can begin a string of the grammar.
Viable(c, i) ==
    \/ \A k \in 1..i : ByteTransform(c[k])
    \/ \E n \in 1..i :
        /\ Leaf(c[n])
        /\ \A k \in 1..(n - 1) : ByteTransform(c[k])
        /\ \A k \in (n + 1)..i : PartWrapper(c[k])

\* The position of the offending token: the first one that cannot go on a
\* string of the grammar; 0 when every token can.
Offending(c) ==
    IF \A i \in 1..Len(c) : Viable(c, i) THEN 0
    ELSE CHOOSE i \in 1..Len(c) : ~Viable(c, i) /\ \A k \in 1..(i - 1) : Viable(c, k)

\* A token with a ':' that is no leaf: delim: with an empty delimiter,
\* chunker: with no unsigned decimal.
Malformed(t) == Len(t) > 1 /\ ~Leaf(t)

\* C12 as stated: a codec string rejected for an empty, unknown or misplaced
\* token fails with `codec was not recognised: X`, X the offending token, or
\* with `unable to follow codec 'A' with 'B'`, B the offending token and A the
\* token before it.
C12_OneOfTwoMessages ==
    (Resolved /\ ~Accepted /\ Offending(codec) # 0 /\ ~Malformed(codec[Offending(codec)]))
        => LET i == Offending(codec)
           IN  \/ got.err = NotRecognised(codec[i])
               \/ i > 1 /\ got.err = UnableToFollow(codec[i - 1], codec[i])

\* C12 amended: every rejected codec string fails with the message its first
\* offending token B selects: the empty-delimiter or the chunk-size message
\* when B is a malformed delim: or chunker: token, `unable to codec 'B' must
\* be preceded by a structured codec` when B is a part-wrapper,
\* `unable to follow codec 'A' with 'B'` when B is a byte-transform or a leaf
\* (A the token before it), `codec was not recognised: B` when B is any other
\* token; and with `codec was not recognised:` followed by the whole token
\* list when no token offends and the leaf is missing.
C12_MessageOfOffendingToken ==
    (Resolved /\ ~Accepted)
        => LET i == Offending(codec)
           IN  IF i = 0 THEN got.err = NotRecognisedList(codec)
               ELSE IF Malformed(codec[i]) /\ codec[i][1] = "delim" THEN got.err = EmptyDelim
               ELSE IF Malformed(codec[i]) THEN got.err = InvalidChunkSize(codec[i])
               ELSE IF PartWrapper(codec[i]) THEN got.err = MustBePreceded(codec[i])
               ELSE IF ByteTransform(codec[i]) \/ Leaf(codec[i])
                    THEN got.err = CodecErr("unable to follow codec", <<codec[i - 1], codec[i]>>, <<>>)
               ELSE got.err = NotRecognised(codec[i])

C12_Witness ==
    /\ cpc = "got"
    /\ codec = << <<"lines">>, <<"multipart">>, <<"gzip">> >>
    /\ got.err = CodecErr("unable to follow codec", << <<"multipart">>, <<"gzip">> >>, <<>>)


\* The path ends in '.' followed by the pieces of suf joined by '.'.
EndsIn(p, suf) ==
    /\ Len(p) > Len(suf)
    /\ SubSeq(p, Len(p) - Len(suf) + 1, Len(p)) = suf

\* The stages the extension of a path calls for.
StagesByExtension(p) ==
    IF EndsIn(p, <<"csv">>) THEN <<"csv">>
    ELSE IF EndsIn(p, <<"csv", "gz">>) \/ EndsIn(p, <<"csv", "gzip">>) THEN <<"gzip", "csv">>
    ELSE IF EndsIn(p, <<"tar">>) THEN <<"tar">>
    ELSE IF EndsIn(p, <<"tgz">>) \/ EndsIn(p, <<"tar", "gz">>) \/ EndsIn(p, <<"tar", "gzip">>)
    THEN <<"gzip", "tar">>
    ELSE <<"all-bytes">>

\* C13: with codec auto, a path ending in .csv uses csv; .csv.gz or .csv.gzip
\* uses gzip/csv; .tar uses tar; .tgz, .tar.gz or .tar.gzip uses gzip/tar;
\* every other path uses all-bytes.
C13_AutoByExtension ==
    (cpc = "built" /\ codec = << <<"auto">> >>) => built.used = StagesByExtension(path)


\* C15: after the failed construction of a chain the byte source has been
\* closed and no constructed stage is left open.
C15_FailedChainLeavesNothingOpen ==
    (cpc = "built" /\ built.err # NoErr /\ Len(built.used) > 1) => built.open = {}


----------------------------------------------------------------------------
\* The chunker, byte by byte.

MaxBytes == 3          \* bytes of the source
MaxChunk == 2          \* chunk size

Bytes == {"a", "b"}
Sources == {<<>>} \cup SeqsUpTo(Bytes, MaxBytes)

Min(a, b) == IF a < b THEN a ELSE b

\* What one a.r.Read(a.buf) may return: n bytes, no more than buf holds and
\* no more than the source has left, with a nil error, with io.EOF when
\* nothing is left after them, or with an I/O error.
ReadResult(n, err) == [n |-> n, err |-> err]
Reads ==
    {ReadResult(n, err) :
        n \in 0..Min(chunkSize, Len(srcBytes) - srcPos), err \in {Nil, EOF} \cup IOErrs}
CanRead(rd) ==
    /\ rd \in Reads
    /\ rd.err = EOF => srcPos + rd.n = Len(srcBytes)

chunkerReaderNextBytes(rd) ==
    IF chunkFin
    THEN /\ chunkRet' = "eof"
         /\ UNCHANGED <<srcPos, chunks, chunkFin>>
    ELSE /\ srcPos' = srcPos + rd.n
         /\ IF rd.err \notin {Nil, EOF}
            THEN /\ chunkRet' = "err"
                 /\ UNCHANGED <<chunks, chunkFin>>
            ELSE /\ chunkFin' = (rd.err = EOF)
                 /\ IF rd.n > 0
                    THEN /\ chunks' = Append(chunks, SubSeq(srcBytes, srcPos + 1, srcPos + rd.n))
                         /\ chunkRet' = "part"
                    ELSE /\ chunks' = chunks
                         /\ chunkRet' = IF rd.err = EOF THEN "eof" ELSE "zero"

\* A chunker of some chunk size is built over some source.
ChunkInit ==
    /\ ReaderOff
    /\ CtorOff
    /\ ArithOff
    /\ SetOff
    /\ MethOff
    /\ chunkSize \in 0..MaxChunk
    /\ srcBytes \in Sources
    /\ srcPos = 0
    /\ chunks = <<>>
    /\ chunkFin = FALSE
    /\ chunkRet = "none"

\* The consumer calls Next until it returns an error.
ChunkNext(rd) ==
    /\ chunkRet \notin {"off", "err", "eof"}
    /\ CanRead(rd)
    /\ chunkerReaderNextBytes(rd)
    /\ UNCHANGED <<chunkSize, srcBytes>>
    /\ UNCHANGED chunkFrame

StepChunk == \E n \in 0..MaxChunk, err \in {Nil, EOF} \cup IOErrs : ChunkNext(ReadResult(n, err))

SpecChunk == ChunkInit /\ [][StepChunk]_vars

RECURSIVE Concat(_)
Concat(ps) == IF ps = <<>> THEN <<>> ELSE Head(ps) \o Concat(Tail(ps))

\* C14: when the chunker has read its source to the end, the parts
\* concatenate to the source, every part but the last holds chunkSize bytes
\* and the last holds between 1 and chunkSize bytes.
C14_FixedSizeChunks ==
    chunkRet = "eof"
        => /\ Concat(chunks) = srcBytes
           /\ \A i \in 1..(Len(chunks) - 1) : Len(chunks[i]) = chunkSize
           /\ chunks # <<>> => Len(chunks[Len(chunks)]) \in 1..chunkSize

\* Read to the end, the parts concatenate to the source and none is empty
\* or longer than chunkSize.
ChunksConcatenate ==
    chunkRet = "eof"
        => /\ Concat(chunks) = srcBytes
           /\ \A i \in 1..Len(chunks) : Len(chunks[i]) \in 1..chunkSize


----------------------------------------------------------------------------
\* Arithmetic expressions of the query language.  An operand function is
\* what it returns when executed: a value or an error.  A number is the
\* fraction n/d in lowest terms, whatever its representation (int64, uint64,
\* float64, json.Number); a bool is 1 or 0.

MaxOperands == 3       \* operands of an arithmetic expression

Value(k, n, d) == [ok |-> TRUE, k |-> k, n |-> n, d |-> d, msg |-> "", from |-> <<>>]
Error(msg, from) == [ok |-> FALSE, k |-> "", n |-> 0, d |-> 1, msg |-> msg, from |-> from]

Abs(x) == IF x < 0 THEN -x ELSE x
RECURSIVE Gcd(_, _)
Gcd(a, b) == IF b = 0 THEN a ELSE Gcd(b, a % b)

Bool(b) == Value("bool", IF b THEN 1 ELSE 0, 1)
Number(n, d) ==
    LET g == Gcd(Abs(n), Abs(d))
        sgn == IF d < 0 THEN -1 ELSE 1
    IN  Value("number", (sgn * n) \div g, (sgn * d) \div g)
Null == Value("null", 0, 1)
Delete == Value("delete", 0, 1)
Nothing == Value("nothing", 0, 1)
\* An operand whose execution returns an error.
Raise == Error("operand failed", <<>>)

Outs == {Bool(TRUE), Bool(FALSE), Number(0, 1), Number(2, 1), Null, Raise}
CoalesceOuts == {Null, Delete, Nothing, Number(2, 1), Bool(FALSE), Raise}
Operators == {"*", "/", "%", "-", ">", "&&", "||", "|"}

\* The annotation of operand i.
Ann(i) == "f" \o ToString(i)

\* An expression is an operand or an operator over two expressions.
Operand(i) == [op |-> "operand", i |-> i]
Node(op, l, r) == [op |-> op, l |-> l, r |-> r]
Annotation(t) == IF t.op = "operand" THEN Ann(t.i) ELSE "arithmetic"

\* The precedence tiers, highest first.
TiersCoalesceFirst ==
    << {"*", "/", "%", "|"}, {"+", "-"}, {"==", "!=", ">", ">=", "<", "<="}, {"&&"}, {"||"} >>
Tiers ==
    << {"*", "/", "%"}, {"+", "-"}, {"==", "!=", ">", ">=", "<", "<="}, {"&&"}, {"||"}, {"|"} >>

\* One pass over the operators: an operator of the tier joins the
\* expression before it with the operand after it, any other is kept.
RECURSIVE resolvePass(_, _, _, _, _, _)
resolvePass(ts, os, tier, i, tsNew, osNew) ==
    IF i > Len(os) THEN [fns |-> tsNew, ops |-> osNew]
    ELSE IF os[i] \in tier
    THEN resolvePass(ts, os, tier, i + 1,
                     [tsNew EXCEPT ![Len(tsNew)] = Node(os[i], tsNew[Len(tsNew)], ts[i + 1])],
                     osNew)
    ELSE resolvePass(ts, os, tier, i + 1, Append(tsNew, ts[i + 1]), Append(osNew, os[i]))

RECURSIVE resolveTiers(_, _, _)
resolveTiers(ts, os, k) ==
    IF k > Len(Tiers) THEN ts[1]
    ELSE LET p == resolvePass(ts, os, Tiers[k], 1, <<ts[1]>>, <<>>)
         IN  resolveTiers(p.fns, p.ops, k + 1)

\* The expression over operands 1..n and the operators os.
NewArithmeticExpression(n, os) == resolveTiers([i \in 1..n |-> Operand(i)], os, 1)

\* An execution: what was returned and which operands were executed.
Ran(r, set) == [res |-> r, ran |-> set]
Both(L, R, r) == Ran(r, L.ran \cup R.ran)

TypeError(msg, l, la, r, ra) == Error(msg, <<l.k, la, r.k, ra>>)
DivideByZeroLeft(la, ra) == Error("attempted to divide by zero", <<la>>)
DivideByZero(la, ra) == Error("attempted to divide by zero", <<ra>>)

\* * / % - on two values.
numberDegradationFunc(op, l, la, r, ra) ==
    IF l.k # "number" \/ r.k # "number" THEN TypeError("cannot " \o op \o " types", l, la, r, ra)
    ELSE IF op = "*" THEN Number(l.n * r.n, l.d * r.d)
    ELSE IF op = "-" THEN Number(l.n * r.d - r.n * l.d, l.d * r.d)
    ELSE IF r.n = 0 THEN DivideByZero(la, ra)
    ELSE IF op = "/" THEN Number(l.n * r.d, l.d * r.n)
    ELSE LET a == l.n * r.d
             b == Abs(r.n * l.d)
         IN  Number((IF a < 0 THEN -1 ELSE 1) * (Abs(a) % b), l.d * r.d)

\* > on two values.
compareFn(op, l, la, r, ra) ==
    IF l.k # "number" \/ r.k # "number" THEN TypeError("cannot compare types", l, la, r, ra)
    ELSE Bool(l.n * r.d > r.n * l.d)

\* An operator that executes both operands, the left one first.
strictFn(op, L, la, R, ra) ==
    IF ~L.res.ok THEN L
    ELSE IF ~R.res.ok THEN Both(L, R, R.res)
    ELSE IF op = ">" THEN Both(L, R, compareFn(op, L.res, la, R.res, ra))
    ELSE Both(L, R, numberDegradationFunc(op, L.res, la, R.res, ra))

\* && and ||: stop is the value of the left operand that decides the result.
logicalFnEager(stop, L, la, R, ra) ==
    IF ~L.res.ok THEN L
    ELSE IF L.res.k # "bool" THEN Ran(Error("expected bool value", <<la>>), L.ran)
    ELSE IF ~R.res.ok THEN Both(L, R, R.res)
    ELSE IF R.res.k # "bool" THEN Both(L, R, Error("expected bool value", <<ra>>))
    ELSE IF L.res = Bool(stop) THEN Both(L, R, Bool(stop))
    ELSE Both(L, R, R.res)

logicalFn(stop, L, la, R, ra) ==
    IF ~L.res.ok THEN L
    ELSE IF L.res.k # "bool" THEN Ran(Error("expected bool value", <<la>>), L.ran)
    ELSE IF L.res = Bool(stop) THEN Ran(Bool(stop), L.ran)
    ELSE IF ~R.res.ok THEN Both(L, R, R.res)
    ELSE IF R.res.k # "bool" THEN Both(L, R, Error("expected bool value", <<ra>>))
    ELSE Both(L, R, R.res)

\* | : the left operand unless it fails or is null, Delete or Nothing.
coalesceFnNullOnly(L, R) ==
    IF ~L.res.ok \/ L.res.k = "null" THEN Both(L, R, R.res) ELSE L

coalesceFn(L, R) ==
    IF ~L.res.ok \/ L.res.k \in {"null", "delete", "nothing"} THEN Both(L, R, R.res) ELSE L

RECURSIVE Exec(_, _)
Exec(f, t) ==
    IF t.op = "operand"
    THEN Ran(IF f[t.i].ok THEN f[t.i] ELSE Error(f[t.i].msg, <<Ann(t.i)>>), {t.i})
    ELSE LET L == Exec(f, t.l)
             R == Exec(f, t.r)
             la == Annotation(t.l)
             ra == Annotation(t.r)
         IN  IF t.op = "&&" THEN logicalFn(FALSE, L, la, R, ra)
             ELSE IF t.op = "||" THEN logicalFn(TRUE, L, la, R, ra)
             ELSE IF t.op = "|" THEN coalesceFn(L, R)
             ELSE strictFn(t.op, L, la, R, ra)

\* Operands and operators of an expression: any of Outs and Operators, or a
\* chain of | over operands that may be Delete or Nothing.
ArithInit ==
    /\ ReaderOff
    /\ CtorOff
    /\ ChunkOff
    /\ SetOff
    /\ MethOff
    /\ \E n \in 1..MaxOperands :
        \/ fns \in [1..n -> Outs] /\ ops \in [1..(n - 1) -> Operators]
        \/ fns \in [1..n -> CoalesceOuts] /\ ops = [i \in 1..(n - 1) |-> "|"]
    /\ res = <<>>
    /\ ran = {}
    /\ apc = "start"

\* The expression is built and executed.
ArithExec ==
    /\ apc = "start"
    /\ LET e == Exec(fns, NewArithmeticExpression(Len(fns), ops))
       IN  res' = e.res /\ ran' = e.ran
    /\ apc' = "done"
    /\ UNCHANGED <<fns, ops>>
    /\ UNCHANGED arithFrame

StepArith == ArithExec

SpecArith == ArithInit /\ [][StepArith]_vars


----------------------------------------------------------------------------
\* Properties of arithmetic expressions.

Done == apc = "done"

\* Every operator of the expression is op, and there is one at least.
Chain(op) == Len(ops) >= 1 /\ \A k \in 1..Len(ops) : ops[k] = op

\* What executing operand i returns.
Returns(i) == IF fns[i].ok THEN fns[i] ELSE Error(fns[i].msg, <<Ann(i)>>)

\* Operand i is the first one that evaluates to b; those before it evaluate
\* to the other bool.
FirstBool(i, b) == fns[i] = Bool(b) /\ \A j \in 1..(i - 1) : fns[j] = Bool(~b)

\* C16: in a chain of && the first operand that evaluates to false makes the
\* result false, in a chain of || the first that evaluates to true makes it
\* true, and no operand after it is executed, whatever it would return.
C16_ShortCircuit ==
    Done => \A i \in 1..(Len(fns) - 1) :
                /\ (Chain("&&") /\ FirstBool(i, FALSE)) => (res = Bool(FALSE) /\ ran = 1..i)
                /\ (Chain("||") /\ FirstBool(i, TRUE)) => (res = Bool(TRUE) /\ ran = 1..i)

C16_Witness ==
    /\ Done
    /\ ops = <<"&&", "&&">>
    /\ fns = <<Bool(TRUE), Bool(FALSE), Raise>>
    /\ res = Bool(FALSE)
    /\ ran = {1, 2}

\* A value | returns: no error, and not null, Delete or Nothing.
Acceptable(v) == v.ok /\ v.k \notin {"null", "delete", "nothing"}

\* C17: a chain of | returns the first operand, from the left, that is
\* acceptable, and executes no operand after it; when none is acceptable it
\* returns what the last operand returns.
C17_Coalesce ==
    (Done /\ Chain("|"))
        => /\ \A i \in 1..Len(fns) :
                (Acceptable(fns[i]) /\ \A j \in 1..(i - 1) : ~Acceptable(fns[j]))
                    => (res = fns[i] /\ ran = 1..i)
           /\ (\A j \in 1..Len(fns) : ~Acceptable(fns[j]))
                    => (res = Returns(Len(fns)) /\ ran = 1..Len(fns))

C17_Witness ==
    /\ Done
    /\ ops = <<"|", "|">>
    /\ fns = <<Delete, Nothing, Number(2, 1)>>
    /\ res = Number(2, 1)

\* The expression begins with a division or modulo of a number by zero.
DividesByZero ==
    /\ Len(fns) >= 2
    /\ ops[1] \in {"/", "%"}
    /\ fns[1].k = "number"
    /\ fns[2] = Number(0, 1)

\* C18 as stated: a division or modulo by zero fails with the annotation of
\* the left operand before `attempted to divide by zero`.
C18_LeftAnnotation ==
    (Done /\ DividesByZero /\ Len(fns) = 2)
        => res = Error("attempted to divide by zero", <<Ann(1)>>)

\* C18 amended: a division or modulo by zero fails with the annotation of
\* the right operand, the divisor, before `attempted to divide by zero`, and
\* the expression yields no value unless a | recovers the error.
C18_RightAnnotation ==
    (Done /\ DividesByZero /\ \A k \in 1..Len(ops) : ops[k] # "|")
        => res = Error("attempted to divide by zero", <<Ann(2)>>)

C18_Witness ==
    /\ Done
    /\ ops = <<"%">>
    /\ fns = <<Number(2, 1), Number(0, 1)>>
    /\ res = Error("attempted to divide by zero", <<"f2">>)

\* The tier of an operator, 1 binding tightest.
Precedence(op) ==
    IF op \in {"*", "/", "%"} THEN 1
    ELSE IF op \in {"+", "-"} THEN 2
    ELSE IF op \in {"==", "!=", ">", ">=", "<", "<="} THEN 3
    ELSE IF op = "&&" THEN 4
    ELSE IF op = "||" THEN 5
    ELSE 6

\* The fully parenthesised expression over operands lo..hi: it splits at the
\* last operator of the loosest tier.
RECURSIVE Parenthesised(_, _, _)
Parenthesised(os, lo, hi) ==
    IF lo = hi THEN Operand(lo)
    ELSE LET k == CHOOSE k \in lo..(hi - 1) :
                      /\ \A j \in lo..(hi - 1) : Precedence(os[j]) <= Precedence(os[k])
                      /\ \A j \in (k + 1)..(hi - 1) : Precedence(os[j]) < Precedence(os[k])
         IN  Node(os[k], Parenthesised(os, lo, k), Parenthesised(os, k + 1, hi))

\* C19: the expression NewArithmeticExpression builds evaluates as the fully
\* parenthesised expression does: same result, same operands executed.
C19_PrecedenceAndAssociativity ==
    Done => LET e == Exec(fns, Parenthesised(ops, 1, Len(fns)))
            IN  res = e.res /\ ran = e.ran

C19_Witness ==
    /\ Done
    /\ ops = <<"-", "/">>
    /\ fns = <<Number(2, 1), Number(2, 1), Number(2, 1)>>
    /\ res = Number(1, 1)


----------------------------------------------------------------------------
\* Function sets.  A Go map is a reference: heap[m] is the content of map m,
\* and a FunctionSet is the two maps it points to.

MaxClones == 2         \* calls of Without

GoodNames == {"explode", "map_each", "foo"}
BadNames == {"!no", "foo__bar", "FOO"}
Ctors == {"c1", "c2"}
ParamSpecs == {"valid", "invalid"}

FunctionSet(constructors, specs) == [constructors |-> constructors, specs |-> specs]

\* The first two maps are those of the original set.
setOne == FunctionSet(1, 2)

SetErr(msg, name) == [msg |-> msg, name |-> name]
NoSetErr == SetErr("", "")
badFunctionErr(name) == SetErr("unrecognised function", name)

\* The characters of each name.
Chars(name) ==
    CASE name = "explode" -> <<"e", "x", "p", "l", "o", "d", "e">>
      [] name = "map_each" -> <<"m", "a", "p", "_", "e", "a", "c", "h">>
      [] name = "foo" -> <<"f", "o", "o">>
      [] name = "!no" -> <<"!", "n", "o">>
      [] name = "foo__bar" -> <<"f", "o", "o", "_", "_", "b", "a", "r">>
      [] name = "FOO" -> <<"F", "O", "O">>

LowerOrDigit ==
    {"a", "b", "c", "d", "e", "f", "g", "h", "i", "j", "k", "l", "m", "n", "o", "p", "q", "r",
     "s", "t", "u", "v", "w", "x", "y", "z", "0", "1", "2", "3", "4", "5", "6", "7", "8", "9"}

\* ^[a-z0-9]+(_[a-z0-9]+)*$ : runs of lower-case letters and digits, joined
\* by single underscores.
nameRegexp(name) ==
    LET cs == Chars(name)
    IN  /\ cs # <<>>
        /\ \A i \in 1..Len(cs) :
              \/ cs[i] \in LowerOrDigit
              \/ /\ cs[i] = "_"
                 /\ i > 1 /\ i < Len(cs)
                 /\ cs[i - 1] \in LowerOrDigit /\ cs[i + 1] \in LowerOrDigit

\* What validate returns for the parameters of a spec.
ParamsValidate(params) ==
    IF params = "valid" THEN NoSetErr ELSE SetErr("invalid parameters", "")

Put(m, k, v) == [x \in DOMAIN m \cup {k} |-> IF x = k THEN v ELSE m[x]]
Restrict(m, keys) == [x \in DOMAIN m \cap keys |-> m[x]]

\* Add that overwrites an entry of the same name.
FunctionSetAddOverwrite(h, f, name, ctor, params) ==
    IF ~nameRegexp(name) THEN [err |-> SetErr("does not match the required regular expression", name), heap |-> h]
    ELSE IF ParamsValidate(params) # NoSetErr THEN [err |-> ParamsValidate(params), heap |-> h]
    ELSE [err |-> NoSetErr,
          heap |-> [h EXCEPT ![f.constructors] = Put(@, name, ctor), ![f.specs] = Put(@, name, ctor)]]

\* Add writes into the maps of f.
FunctionSetAdd(h, f, name, ctor, params) ==
    IF ~nameRegexp(name) THEN [err |-> SetErr("does not match the required regular expression", name), heap |-> h]
    ELSE IF name \in DOMAIN h[f.constructors] THEN [err |-> SetErr("conflicting function name", name), heap |-> h]
    ELSE IF ParamsValidate(params) # NoSetErr THEN [err |-> ParamsValidate(params), heap |-> h]
    ELSE [err |-> NoSetErr,
          heap |-> [h EXCEPT ![f.constructors] = Put(@, name, ctor), ![f.specs] = Put(@, name, ctor)]]

FunctionSetList(h, f) == DOMAIN h[f.constructors]

FunctionSetInit(h, f, name) ==
    IF name \notin DOMAIN h[f.constructors] THEN badFunctionErr(name) ELSE NoSetErr

\* Without that hands out the set itself when nothing is excluded.
FunctionSetWithoutShared(h, f, names) ==
    IF names = {}
    THEN [heap |-> h, set |-> f]
    ELSE [heap |-> h \o << Restrict(h[f.constructors], DOMAIN h[f.constructors] \ names),
                           Restrict(h[f.specs], DOMAIN h[f.specs] \ names) >>,
          set |-> FunctionSet(Len(h) + 1, Len(h) + 2)]

\* Without makes two new maps and copies the entries that are not excluded.
FunctionSetWithout(h, f, names) ==
    [heap |-> h \o << Restrict(h[f.constructors], DOMAIN h[f.constructors] \ names),
                      Restrict(h[f.specs], DOMAIN h[f.specs] \ names) >>,
     set |-> FunctionSet(Len(h) + 1, Len(h) + 2)]

\* The set f replaces the clone: the maps neither it nor the original points
\* to are garbage, and the maps of f come right after those of the original.
Collect(h, f) ==
    IF f = setOne THEN <<h[1], h[2]>> ELSE <<h[1], h[2], h[f.constructors], h[f.specs]>>
Moved(f) == IF f = setOne THEN setOne ELSE FunctionSet(3, 4)

\* The original set holds some of the names.
SetInit ==
    /\ ReaderOff
    /\ CtorOff
    /\ ChunkOff
    /\ ArithOff
    /\ MethOff
    /\ \E names \in SUBSET GoodNames :
        /\ had = [x \in names |-> "c1"]
        /\ heap = <<had, had>>
    /\ setTwo = setOne
    /\ clones = 0
    /\ excl = {}
    /\ added = {}
    /\ initRet = <<>>
    /\ addRet = <<>>

\* Without is called on the original the first time, on the clone later.
Without(names) ==
    /\ clones < MaxClones
    /\ LET w == FunctionSetWithout(heap, setTwo, names)
       IN  heap' = Collect(w.heap, w.set) /\ setTwo' = Moved(w.set)
    /\ clones' = clones + 1
    /\ excl' = excl \cup names
    /\ added' = added \ names
    /\ UNCHANGED <<had, initRet, addRet>>
    /\ UNCHANGED setFrame

\* Add is called on the clone.
Add(name, ctor, params) ==
    /\ clones > 0
    /\ LET a == FunctionSetAdd(heap, setTwo, name, ctor, params)
       IN  /\ heap' = a.heap
           /\ added' = IF a.err = NoSetErr THEN added \cup {name} ELSE added
           /\ addRet' = [name |-> name, params |-> params, err |-> a.err]
    /\ initRet' = <<>>
    /\ UNCHANGED <<setTwo, clones, had, excl>>
    /\ UNCHANGED setFrame

\* Init is called on the original ("one") or on the clone ("two").
InitCall(on, name) ==
    /\ clones > 0
    /\ initRet' = [on |-> on, name |-> name,
                   err |-> FunctionSetInit(heap, IF on = "one" THEN setOne ELSE setTwo, name)]
    /\ addRet' = <<>>
    /\ UNCHANGED <<heap, setTwo, clones, had, excl, added>>
    /\ UNCHANGED setFrame

StepSet ==
    \/ \E names \in SUBSET GoodNames : Without(names)
    \/ \E name \in GoodNames \cup BadNames, ctor \in Ctors, params \in ParamSpecs :
            Add(name, ctor, params)
    \/ \E on \in {"one", "two"}, name \in GoodNames : InitCall(on, name)

SpecSet == SetInit /\ [][StepSet]_vars

\* The original set is as it was: both its maps hold the entries it had.
OriginalUnchanged ==
    /\ heap[setOne.constructors] = had
    /\ heap[setOne.specs] = had

\* C20 as stated: after any calls of Add and Without on the clone the
\* original is unchanged, and Init of any name a Without excluded fails on
\* the clone as unrecognised and succeeds on the original when it held it.
C20_ExcludedNeverInitialises ==
    clones > 0
        => /\ OriginalUnchanged
           /\ \A x \in excl :
                /\ FunctionSetInit(heap, setTwo, x) = badFunctionErr(x)
                /\ x \in DOMAIN had => FunctionSetInit(heap, setOne, x) = NoSetErr

\* C20 amended: after any calls of Add and Without on the clone the original
\* is unchanged; the clone lists the entries of the original that were not
\* excluded, with their constructors, and the names added to it since; and
\* Init of an excluded name that was not added again fails on the clone as
\* unrecognised and succeeds on the original when it held it.
C20_CloneIsolated ==
    clones > 0
        => /\ OriginalUnchanged
           /\ FunctionSetList(heap, setTwo) = (DOMAIN had \ excl) \cup added
           /\ \A x \in DOMAIN had \ (excl \cup added) : heap[setTwo.constructors][x] = had[x]
           /\ \A x \in excl \ added :
                /\ FunctionSetInit(heap, setTwo, x) = badFunctionErr(x)
                /\ x \in DOMAIN had => FunctionSetInit(heap, setOne, x) = NoSetErr

C20_Witness ==
    /\ clones > 0
    /\ "explode" \in DOMAIN had
    /\ "explode" \in excl \ added
    /\ added # {}
    /\ initRet = [on |-> "two", name |-> "explode", err |-> badFunctionErr("explode")]


\* C21: Add succeeds exactly when the name matches the regular expression, no
\* entry of that name is in the set and the parameters validate; a rejected
\* Add returns the error of the first of these that fails, quoting the name,
\* and leaves both maps of the set as they were; an accepted Add enters the
\* constructor and the spec under the name and changes no other entry.
C21_AddContract ==
    [][(addRet' # <<>> /\ clones' = clones) =>
          LET name == addRet'.name
              before == heap[setTwo.constructors]
              ok == /\ nameRegexp(name)
                    /\ name \notin DOMAIN before
                    /\ addRet'.params = "valid"
          IN  /\ addRet'.err = NoSetErr <=> ok
              /\ ~nameRegexp(name) =>
                    addRet'.err = SetErr("does not match the required regular expression", name)
              /\ nameRegexp(name) /\ name \in DOMAIN before =>
                    addRet'.err = SetErr("conflicting function name", name)
              /\ ~ok => /\ heap'[setTwo.constructors] = before
                        /\ heap'[setTwo.specs] = heap[setTwo.specs]
              /\ ok => /\ \E ctor \in Ctors : heap'[setTwo.constructors] = Put(before, name, ctor)
                       /\ DOMAIN heap'[setTwo.specs] = DOMAIN heap[setTwo.specs] \cup {name}
    ]_vars

\* An Add of a name the clone holds was rejected after one that was accepted.
C21_Witness ==
    /\ addRet # <<>>
    /\ addRet.err = SetErr("conflicting function name", addRet.name)
    /\ addRet.name \in added
    /\ heap[setTwo.constructors][addRet.name] = "c1"


----------------------------------------------------------------------------
\* Methods over strings, byte sequences and arrays.  A value is a Go type with
\* a number (for a number or a bool) or a sequence (the bytes of a string, the
\* elements of an array).

MaxLen == 3            \* elements of a target
MaxIndex == 4          \* size of a slice bound

Val(k, n, a) == [k |-> k, n |-> n, a |-> a]
Num(n) == Val("float64", n, <<>>)
I64(n) == Val("int64", n, <<>>)
Bool1(n) == Val("bool", n, <<>>)
Str(a) == Val("string", 0, a)
Raw(a) == Val("bytes", 0, a)
Arr(a) == Val("array", 0, a)
NoVal == Val("null", 0, <<>>)

\* What a method returns: an error from its constructor ("build") or from its
\* execution ("exec"), or a value.
MRes(at, err, v) == [at |-> at, err |-> err, v |-> v]
MOk(v) == MRes("exec", "", v)

Max(a, b) == IF a > b THEN a ELSE b

ByteSeqs == {<<>>} \cup SeqsUpTo({1, 2}, MaxLen)
SliceTargets ==
    {Str(a) : a \in ByteSeqs} \cup {Raw(a) : a \in ByteSeqs}
        \cup {Arr([i \in DOMAIN a |-> Num(a[i])]) : a \in ByteSeqs}
        \cup {Num(1)}
SliceArgs == {<<i>> : i \in -MaxIndex..MaxIndex}
                \cup {<<i, j>> : i \in -MaxIndex..MaxIndex, j \in -MaxIndex..MaxIndex}

\* getBounds of sliceMethod: the bounds within a target of length l.
getBounds(args, l) ==
    LET start == args[1]
        end0 == IF Len(args) > 1
                THEN (IF args[2] < 0 THEN l + args[2] ELSE args[2])
                ELSE l
        end1 == IF end0 > l THEN l ELSE end0
        endV == IF end1 < 0 THEN 0 ELSE end1
        startV == IF start < 0 THEN (IF l + start < 0 THEN 0 ELSE l + start) ELSE start
    IN  [startV |-> startV, endV |-> endV,
         err |-> IF startV > endV
                 THEN "lower slice bound must be lower than or equal to upper bound and target length"
                 ELSE ""]

\* The constructor of slice refuses a positive upper bound that is not above
\* the lower one.
sliceBuildErr(args) ==
    IF Len(args) > 1 /\ args[2] > 0 /\ args[1] >= args[2]
    THEN "lower slice bound must be lower than upper"
    ELSE ""

sliceMethod(args, v) ==
    IF sliceBuildErr(args) # "" THEN MRes("build", sliceBuildErr(args), NoVal)
    ELSE IF v.k \notin {"string", "bytes", "array"} THEN MRes("exec", "type error", NoVal)
    ELSE LET b == getBounds(args, Len(v.a))
         IN  IF b.err # "" THEN MRes("exec", b.err, NoVal)
             ELSE MOk(Val(v.k, 0, SubSeq(v.a, b.startV + 1, b.endV)))

\* Arrays of numbers, strings, byte sequences and bools.
Elems == {I64(1), Num(1), Num(2), Str(<<1>>), Str(<<1, 2>>), Raw(<<1>>), Bool1(1)}
Arrays == {Arr(a) : a \in {<<>>} \cup SeqsUpTo(Elems, MaxLen)}

NumberTypes == {"float64", "int64"}
StringTypes == {"string", "bytes"}

\* IGetNumber: the float value of a number.
IGetNumber(v) == IF v.k \in NumberTypes THEN [err |-> "", n |-> v.n] ELSE [err |-> "type error", n |-> 0]
\* IGetString: the bytes of a string or a byte sequence.
IGetString(v) == IF v.k \in StringTypes THEN [err |-> "", a |-> v.a] ELSE [err |-> "type error", a |-> <<>>]

\* a < b of two Go strings.
RECURSIVE LexLess(_, _)
LexLess(a, b) ==
    IF b = <<>> THEN FALSE
    ELSE IF a = <<>> THEN TRUE
    ELSE IF Head(a) # Head(b) THEN Head(a) < Head(b)
    ELSE LexLess(Tail(a), Tail(b))

Less(b, err) == [b |-> b, err |-> err]

\* compareFn that orders downwards.
sortCompareFnDescending(values, i, j) ==
    IF values[i].k \in NumberTypes
    THEN IF IGetNumber(values[j]).err # "" THEN Less(FALSE, "sort element: type error")
         ELSE Less(IGetNumber(values[i]).n > IGetNumber(values[j]).n, "")
    ELSE IF values[i].k \in StringTypes
    THEN IF IGetString(values[j]).err # "" THEN Less(FALSE, "sort element: type error")
         ELSE Less(LexLess(IGetString(values[j]).a, IGetString(values[i]).a), "")
    ELSE Less(FALSE, "sort element: type error")

\* compareFn of sortMethod without argument: the type of values[i] decides
\* whether both are read as numbers or as strings.
sortCompareFn(values, i, j) ==
    IF values[i].k \in NumberTypes
    THEN IF IGetNumber(values[j]).err # "" THEN Less(FALSE, "sort element: type error")
         ELSE Less(IGetNumber(values[i]).n < IGetNumber(values[j]).n, "")
    ELSE IF values[i].k \in StringTypes
    THEN IF IGetString(values[j]).err # "" THEN Less(FALSE, "sort element: type error")
         ELSE Less(LexLess(IGetString(values[i]).a, IGetString(values[j]).a), "")
    ELSE Less(FALSE, "sort element: type error")

\* The less function handed to sort.Slice: once a comparison failed, the
\* error is kept and every later comparison is false.
sortLess(st, i, j) ==
    IF st.err = "" THEN sortCompareFn(st.values, i, j) ELSE Less(FALSE, st.err)

Swap(a, i, j) == [a EXCEPT ![i] = a[j], ![j] = a[i]]

\* sort.Slice of a short slice is an insertion sort: element i moves down
\* while it is less than the one before it.
RECURSIVE sortInner(_, _)
sortInner(st, j) ==
    IF j <= 1 THEN st
    ELSE LET c == sortLess(st, j, j - 1)
         IN  IF c.b THEN sortInner([values |-> Swap(st.values, j, j - 1), err |-> c.err], j - 1)
             ELSE [values |-> st.values, err |-> c.err]

RECURSIVE sortSlice(_, _)
sortSlice(st, i) ==
    IF i > Len(st.values) THEN st ELSE sortSlice(sortInner(st, i), i + 1)

sortMethod(v) ==
    IF v.k # "array" THEN MRes("exec", "type error", NoVal)
    ELSE LET st == sortSlice([values |-> v.a, err |-> ""], 2)
         IN  IF st.err # "" THEN MRes("exec", st.err, NoVal) ELSE MOk(Arr(st.values))

\* The loop of uniqueMethod that tells numbers of different Go types apart.
RECURSIVE uniqueLoopByType(_, _, _, _, _)
uniqueLoopByType(slice, i, strCompares, numCompares, uniqueSlice) ==
    IF i > Len(slice) THEN MOk(Arr(uniqueSlice))
    ELSE LET v == slice[i]
         IN  IF v.k \in StringTypes
             THEN uniqueLoopByType(slice, i + 1, strCompares \cup {v.a}, numCompares,
                                   IF v.a \in strCompares THEN uniqueSlice ELSE Append(uniqueSlice, v))
             ELSE IF v.k \in NumberTypes
             THEN uniqueLoopByType(slice, i + 1, strCompares, numCompares \cup {<<v.k, v.n>>},
                                   IF <<v.k, v.n>> \in numCompares THEN uniqueSlice ELSE Append(uniqueSlice, v))
             ELSE MRes("exec", "index: type error", NoVal)

\* The loop of uniqueMethod without argument: strCompares holds the strings
\* seen (a byte sequence counts as its string), numCompares the float values
\* seen, and an element is appended when its value was not seen before.
RECURSIVE uniqueLoop(_, _, _, _, _)
uniqueLoop(slice, i, strCompares, numCompares, uniqueSlice) ==
    IF i > Len(slice) THEN MOk(Arr(uniqueSlice))
    ELSE LET v == slice[i]
         IN  IF v.k \in StringTypes
             THEN uniqueLoop(slice, i + 1, strCompares \cup {v.a}, numCompares,
                             IF v.a \in strCompares THEN uniqueSlice ELSE Append(uniqueSlice, v))
             ELSE IF v.k \in NumberTypes
             THEN uniqueLoop(slice, i + 1, strCompares, numCompares \cup {v.n},
                             IF v.n \in numCompares THEN uniqueSlice ELSE Append(uniqueSlice, v))
             ELSE MRes("exec", "index: type error", NoVal)

uniqueMethod(v) ==
    IF v.k # "array" THEN MRes("exec", "type error", NoVal)
    ELSE uniqueLoop(v.a, 1, {}, {}, <<>>)

\* Arrays that hold arrays.
NestedElems ==
    {Num(1), Str(<<1>>), Arr(<<>>), Arr(<<Num(2)>>), Arr(<<Num(1), Arr(<<Num(2)>>)>>),
     Arr(<<Arr(<<>>)>>)}
NestedArrays == {Arr(a) : a \in {<<>>} \cup SeqsUpTo(NestedElems, MaxLen)}

\* A flatten that goes on into the arrays it finds.
RECURSIVE flattenLoopDeep(_, _, _)
flattenLoopDeep(array, i, result) ==
    IF i > Len(array) THEN result
    ELSE flattenLoopDeep(array, i + 1,
            IF array[i].k = "array" THEN result \o flattenLoopDeep(array[i].a, 1, <<>>)
            ELSE Append(result, array[i]))

\* The loop of flatten: the elements of a child that is an array are
\* appended, any other child is appended itself.
RECURSIVE flattenLoop(_, _, _)
flattenLoop(array, i, result) ==
    IF i > Len(array) THEN result
    ELSE flattenLoop(array, i + 1,
            IF array[i].k = "array" THEN result \o array[i].a ELSE Append(result, array[i]))

flatten(v) ==
    IF v.k # "array" THEN MRes("exec", "type error", NoVal)
    ELSE MOk(Arr(flattenLoop(v.a, 1, <<>>)))

\* Objects: a Go map from keys to values.  The key mapping gives for each
\* key a string, Nothing, a value that is no string, or an error.
Keys == {"a", "b", "c"}
Objects == UNION {[ks -> {1, 2}] : ks \in SUBSET Keys}
KeyResults == Keys \cup {"#nothing", "#number", "#error"}
KeyMappings == [Keys -> KeyResults]

\* An order in which range may visit the keys of a map.
Orders(obj) == {o \in [1..Cardinality(DOMAIN obj) -> DOMAIN obj] : \A i, j \in DOMAIN o : o[i] = o[j] => i = j}

\* The loop of map_each_key over the keys in the order range visits them.
RECURSIVE mapEachKeyLoop(_, _, _, _, _)
mapEachKeyLoop(obj, mapFn, order, i, newMap) ==
    IF i > Len(order) THEN MOk(newMap)
    ELSE LET k == order[i]
             newKey == mapFn[k]
         IN  IF newKey = "#error" THEN MRes("exec", "mapping failed", <<>>)
             ELSE IF newKey = "#nothing"
             THEN mapEachKeyLoop(obj, mapFn, order, i + 1, Put(newMap, k, obj[k]))
             ELSE IF newKey \in Keys
             THEN mapEachKeyLoop(obj, mapFn, order, i + 1, Put(newMap, newKey, obj[k]))
             ELSE MRes("exec", "unexpected result from key mapping", <<>>)

mapEachKey(obj, mapFn, order) == mapEachKeyLoop(obj, mapFn, order, 1, <<>>)

MethInit ==
    /\ ReaderOff
    /\ CtorOff
    /\ ChunkOff
    /\ ArithOff
    /\ SetOff
    /\ \/ method = "slice" /\ target \in SliceTargets /\ margs \in SliceArgs
       \/ method = "sort" /\ target \in Arrays \cup {Num(1)} /\ margs = <<>>
       \/ method = "unique" /\ target \in Arrays \cup {Num(1)} /\ margs = <<>>
       \/ method = "flatten" /\ target \in NestedArrays \cup {Num(1)} /\ margs = <<>>
       \/ method = "map_each_key" /\ target \in Objects /\ margs \in KeyMappings
    /\ mres = <<>>
    /\ mprev = <<>>
    /\ mpc = "start"

SliceCall ==
    /\ mpc = "start"
    /\ method = "slice"
    /\ mres' = sliceMethod(margs, target)
    /\ mpc' = "done"
    /\ UNCHANGED <<method, target, margs, mprev>>
    /\ UNCHANGED methFrame

SortCall ==
    /\ mpc = "start"
    /\ method = "sort"
    /\ mres' = sortMethod(target)
    /\ mpc' = "done"
    /\ UNCHANGED <<method, target, margs, mprev>>
    /\ UNCHANGED methFrame

UniqueCall ==
    /\ mpc = "start"
    /\ method = "unique"
    /\ mres' = uniqueMethod(target)
    /\ mpc' = "done"
    /\ UNCHANGED <<method, target, margs, mprev>>
    /\ UNCHANGED methFrame

FlattenCall ==
    /\ mpc = "start"
    /\ method = "flatten"
    /\ mres' = flatten(target)
    /\ mpc' = "done"
    /\ UNCHANGED <<method, target, margs, mprev>>
    /\ UNCHANGED methFrame

\* map_each_key is evaluated twice over the same object with the same
\* mapping; range visits the keys in an order of its own each time.
MapEachKeyCall ==
    /\ mpc \in {"start", "again"}
    /\ method = "map_each_key"
    /\ \E order \in Orders(target) : mres' = mapEachKey(target, margs, order)
    /\ mprev' = mres
    /\ mpc' = IF mpc = "start" THEN "again" ELSE "done"
    /\ UNCHANGED <<method, target, margs>>
    /\ UNCHANGED methFrame

StepMeth ==
    \/ SliceCall
    \/ SortCall
    \/ UniqueCall
    \/ FlattenCall
    \/ MapEachKeyCall

SpecMeth == MethInit /\ [][StepMeth]_vars

MDone(m) == mpc = "done" /\ method = m

\* C22: slice with bounds i, j that its constructor accepted, on a string, a
\* byte sequence or an array x, returns without error the elements of x from
\* position max(i + |x| if i < 0 else i, 0) on, max(0, min(j, |x|) less that
\* position) of them, j being |x| when it is omitted.
C22_SliceLength ==
    (MDone("slice") /\ mres.at = "exec" /\ target.k \in {"string", "bytes", "array"})
        => LET l == Len(target.a)
               i == margs[1]
               j == IF Len(margs) > 1 THEN margs[2] ELSE l
               low == Max(IF i < 0 THEN i + l ELSE i, 0)
               n == Max(0, Min(j, l) - low)
           IN  /\ mres.err = ""
               /\ mres.v.k = target.k
               /\ Len(mres.v.a) = n
               /\ \A p \in 1..n : mres.v.a[p] = target.a[low + p]

Count(a, e) == Cardinality({i \in DOMAIN a : a[i] = e})
Permutation(a, b) == Len(a) = Len(b) /\ \A i \in DOMAIN a : Count(a, a[i]) = Count(b, a[i])

AllOf(a, types) == \A i \in DOMAIN a : a[i].k \in types
Ascending(a) ==
    \A i \in 1..(Len(a) - 1) :
        IF a[i].k \in NumberTypes THEN a[i].n <= a[i + 1].n ELSE ~LexLess(a[i + 1].a, a[i].a)

\* out is an ascending permutation of in that sort leaves as it is.
Sorted(in, out) ==
    /\ out.err = ""
    /\ Permutation(in.a, out.v.a)
    /\ Ascending(out.v.a)
    /\ sortMethod(out.v) = out

\* The types of the elements of an array.
TypesOf(a) == {a[i].k : i \in DOMAIN a}

SameValue(x, y) ==
    \/ x.k \in NumberTypes /\ y.k \in NumberTypes /\ x.n = y.n
    \/ x.k \in StringTypes /\ y.k \in StringTypes /\ x.a = y.a

\* The positions of a that hold the first occurrence of a value.
FirstOccurrences(a) == {i \in DOMAIN a : \A j \in 1..(i - 1) : ~SameValue(a[j], a[i])}

\* C24: unique() of an array of strings and numbers returns the elements at
\* the first occurrence of each value, numbers compared by float value and
\* strings among themselves, in the order they have in the input, and
\* unique() leaves that result as it is.
C24_UniqueFirstOccurrences ==
    (MDone("unique") /\ target.k = "array" /\ AllOf(target.a, NumberTypes \cup StringTypes))
        => LET P == FirstOccurrences(target.a)
           IN  /\ mres.err = ""
               /\ Len(mres.v.a) = Cardinality(P)
               /\ \A i \in P : mres.v.a[Cardinality({j \in P : j < i}) + 1] = target.a[i]
               /\ FirstOccurrences(mres.v.a) = DOMAIN mres.v.a
               /\ uniqueLoop(mres.v.a, 1, {}, {}, <<>>) = mres

\* A number came back as an int64 and as a float64, around a string.
C24_Witness ==
    /\ MDone("unique")
    /\ target = Arr(<<I64(1), Str(<<1>>), Num(1)>>)
    /\ mres = MOk(Arr(<<I64(1), Str(<<1>>)>>))

\* The nesting depth of a value: 0 for a value that is no array, one more
\* than the deepest element for an array.
RECURSIVE Depth(_)
Depth(v) ==
    IF v.k # "array" THEN 0
    ELSE 1 + (IF v.a = <<>> THEN 0
              ELSE CHOOSE d \in {Depth(v.a[i]) : i \in DOMAIN v.a} :
                       \A i \in DOMAIN v.a : Depth(v.a[i]) <= d)

\* Each element that is an array gives its elements, any other gives itself.
Spliced(a) == Concat([i \in DOMAIN a |-> IF a[i].k = "array" THEN a[i].a ELSE <<a[i]>>])

\* C25 as stated: flatten of an array returns an array whose depth is one
\* less than that of the input, with each element that is an array replaced
\* in place by its elements.
C25_DepthOneLess ==
    (MDone("flatten") /\ target.k = "array")
        => /\ mres = MOk(Arr(Spliced(target.a)))
           /\ Depth(mres.v) = Depth(target) - 1

\* C25 amended: flatten of an array returns the array with each element that
\* is an array replaced in place by its elements, the others and the arrays
\* nested more deeply as they were; its depth is one less than that of the
\* input when the input holds an array, and the same, 1, when it holds none.
C25_OneLevelFlattened ==
    (MDone("flatten") /\ target.k = "array")
        => /\ mres = MOk(Arr(Spliced(target.a)))
           /\ Depth(mres.v) = (IF \E i \in DOMAIN target.a : target.a[i].k = "array"
                               THEN Depth(target) - 1 ELSE 1)

\* An array of depth 3 came back with depth 2.
C25_Witness ==
    /\ MDone("flatten")
    /\ target = Arr(<<Str(<<1>>), Arr(<<Num(1), Arr(<<Num(2)>>)>>), Num(1)>>)
    /\ mres = MOk(Arr(<<Str(<<1>>), Num(1), Arr(<<Num(2)>>), Num(1)>>))

\* C30: two evaluations of map_each_key over the same object with the same
\* key mapping, one that gives a string or Nothing for every key, return
\* equal objects.
C30_Deterministic ==
    (/\ MDone("map_each_key")
     /\ \A k \in DOMAIN target : margs[k] # "#error" /\ margs[k] # "#number")
        => mres.err = "" /\ mprev.err = "" /\ mres.v = mprev.v

\* When the mapping gives a string for every key and no two keys end on the
\* same new key, the two evaluations return the same object.
MapEachKeyInjective ==
    (/\ MDone("map_each_key")
     /\ \A k \in DOMAIN target : margs[k] # "#error" /\ margs[k] # "#number"
     /\ \A k, l \in DOMAIN target :
           (IF margs[k] = "#nothing" THEN k ELSE margs[k])
               = (IF margs[l] = "#nothing" THEN l ELSE margs[l]) => k = l)
        => mres.err = "" /\ mprev.err = "" /\ mres.v = mprev.v

====
